---------------------------- MODULE Spec2Model ----------------------------
(***************************************************************************)
(* Model of the uid/gid allocation service (custom-images/uidgid).         *)
(*                                                                         *)
(* Strings are sequences of one-character strings, so that the name        *)
(* squashing, the uuid normalisation and the sanitising of loose names are *)
(* computed character by character, as the Python code does.  Inputs are   *)
(* restricted to ASCII, on which unidecode() is the identity.              *)
(*                                                                         *)
(* The two YAML files are the sequences users and groups of records;   *)
(* every registry operation (re)loads the file first, so an operation is   *)
(* a function of the file content.  Ids are stored as integers: the        *)
(* str()/int() pair the code applies at the file boundary is the identity  *)
(* on the integers it is applied to.                                       *)
(***************************************************************************)
EXTENDS Integers, Sequences, FiniteSets, TLC

(***************************************************************************)
(* Bounds of the model.                                                    *)
(***************************************************************************)
MaxCalls == 2

MaxRegistryOps == 1

MaxRestores == 1

(***************************************************************************)
(* Characters and strings.                                                 *)
(***************************************************************************)
UpperChars == <<"A","B","C","D","E","F","G","H","I","J","K","L","M",
                "N","O","P","Q","R","S","T","U","V","W","X","Y","Z">>

LowerChars == <<"a","b","c","d","e","f","g","h","i","j","k","l","m",
                "n","o","p","q","r","s","t","u","v","w","x","y","z">>

DigitChars == <<"0","1","2","3","4","5","6","7","8","9">>

Range(s) == {s[i] : i \in DOMAIN s}

IsLower(c) == c \in Range(LowerChars)

IsUpper(c) == c \in Range(UpperChars)

IsDigit(c) == c \in Range(DigitChars)

IsHexLower(c) == IsDigit(c) \/ c \in {"a","b","c","d","e","f"}

IsSpace(c) == c \in {" ", "\t", "\n"}

\* str.lower() on one character
Lower(c) == IF IsUpper(c)
            THEN LowerChars[CHOOSE i \in DOMAIN UpperChars : UpperChars[i] = c]
            ELSE c

LowerStr(s) == [i \in DOMAIN s |-> Lower(s[i])]

Rep(c, n) == [i \in 1..n |-> c]

Min(a, b) == IF a < b THEN a ELSE b

Max(a, b) == IF a < b THEN b ELSE a

\* s[:k] of Python, for any integer k
Take(s, k) == IF k >= 0 THEN SubSeq(s, 1, Min(k, Len(s)))
              ELSE SubSeq(s, 1, Max(Len(s) + k, 0))

\* s[k:] of Python, for k >= 0
Drop(s, k) == SubSeq(s, Min(k, Len(s)) + 1, Len(s))

EndsWith(s, t) == Len(t) <= Len(s) /\ SubSeq(s, Len(s) - Len(t) + 1, Len(s)) = t

RECURSIVE FilterStr(_, _)
FilterStr(s, keep) ==
    IF s = <<>> THEN <<>>
    ELSE (IF Head(s) \in keep THEN <<Head(s)>> ELSE <<>>) \o FilterStr(Tail(s), keep)

RECURSIVE RemoveChars(_, _)
RemoveChars(s, drop) ==
    IF s = <<>> THEN <<>>
    ELSE (IF Head(s) \in drop THEN <<>> ELSE <<Head(s)>>) \o RemoveChars(Tail(s), drop)

\* str.strip()
RECURSIVE LStrip(_)
LStrip(s) == IF s # <<>> /\ IsSpace(Head(s)) THEN LStrip(Tail(s)) ELSE s

RECURSIVE RStrip(_)
RStrip(s) == IF s # <<>> /\ IsSpace(s[Len(s)]) THEN RStrip(Take(s, Len(s) - 1)) ELSE s

Strip(s) == RStrip(LStrip(s))

\* str(n) for a natural number n
RECURSIVE DecStr(_)
DecStr(n) == IF n < 10 THEN <<DigitChars[n + 1]>>
             ELSE DecStr(n \div 10) \o <<DigitChars[(n % 10) + 1]>>

\* ",".join(list)
RECURSIVE JoinComma(_)
JoinComma(l) == IF l = <<>> THEN <<>>
                ELSE IF Len(l) = 1 THEN l[1]
                ELSE l[1] \o <<",">> \o JoinComma(Tail(l))

\* x in list
InList(x, l) == \E i \in DOMAIN l : l[i] = x


(***************************************************************************)
(* Python values and exceptions.  A value handed to the service is a       *)
(* string (t = "str", s its characters) or something else (t = "int").     *)
(* An exception is its class, the statement that raised it and, for the    *)
(* active-team guard, the two values its message names.                    *)
(***************************************************************************)
PyStr(s) == [t |-> "str", s |-> s]

PyInt == [t |-> "int", s |-> <<>>]

NoErr == [type |-> "none", what |-> "none", team |-> <<>>, teams |-> <<>>]

Err(type, what) == [type |-> type, what |-> what, team |-> <<>>, teams |-> <<>>]

Ok(v) == [ok |-> TRUE, err |-> NoErr, v |-> v]

Fail(e) == [ok |-> FALSE, err |-> e, v |-> <<>>]

(***************************************************************************)
(* types.py                                                                *)
(***************************************************************************)
ZeroUuid == Rep("0", 8) \o <<"-">> \o Rep("0", 4) \o <<"-">> \o Rep("0", 4)
            \o <<"-">> \o Rep("0", 4) \o <<"-">> \o Rep("0", 12)

\* re.match(r"^[0-9a-z]{32}$", u)
IsPlain32(u) == Len(u) = 32 /\ \A i \in 1..32 : IsDigit(u[i]) \/ IsLower(u[i])

\* re.match(r"^[0-9a-f]{8}-[0-9a-f]{4}-[0-9a-f]{4}-[0-9a-f]{4}-[0-9a-f]{12}$", u)
IsHyphenatedHex(u) ==
    /\ Len(u) = 36
    /\ \A i \in 1..36 : IF i \in {9, 14, 19, 24} THEN u[i] = "-" ELSE IsHexLower(u[i])

Hyphenate(u) == SubSeq(u, 1, 8) \o <<"-">> \o SubSeq(u, 9, 12) \o <<"-">>
                \o SubSeq(u, 13, 16) \o <<"-">> \o SubSeq(u, 17, 20) \o <<"-">>
                \o SubSeq(u, 21, 32)

StsciUuid(x) ==
    IF x.t # "str" THEN Fail(Err("TypeError", "Uuid is not a string."))
    ELSE LET matched(u) ==
                 IF IsPlain32(u) THEN Ok(Hyphenate(u))
                 ELSE IF ~IsHyphenatedHex(u)
                 THEN Fail(Err("ValueError", "Invalid UUID format."))
                 ELSE Ok(u)
         IN matched(LowerStr(Strip(x.s)))

UnicodeNameMaxLen == 128

\* the characters of r"['\"`;\(\)\<\>/\\=%&|!\{\}\[\]#*~$]"; the double quote, the
\* backtick and the backslash are written DQUOTE, BACKTICK and BACKSLASH
SanitizedChars == {"'", "DQUOTE", "BACKTICK", ";", "(", ")", "<", ">", "/", "BACKSLASH", "=",
                   "%", "&", "|", "!", "{", "}", "[", "]", "#", "*", "~", "$"}

UnicodeName(x) ==
    IF x.t # "str" THEN Fail(Err("TypeError", "Name is not a string"))
    ELSE IF Len(x.s) >= UnicodeNameMaxLen THEN Fail(Err("ValueError", "Name is too long"))
    ELSE Ok(RemoveChars(x.s, SanitizedChars))

StsciEzid(x) == UnicodeName(x)

TeamName(x) == UnicodeName(x)

SystemId_max == 999

UserUid_min == 1000

UserUid_max == 59999

UserGid_min == 1000

UserGid_max == 59999

GroupGid_min == 60000

GroupGid_max == 65533

GroupAdminUid_min == 60000

GroupAdminUid_max == 65533

\* an id type that accepts every integer
RangedId_Unranged(value, min_id, max_id) == [ok |-> TRUE, err |-> NoErr, v |-> value]

RangedId(value, min_id, max_id) ==
    IF value < min_id \/ value > max_id
    THEN [ok |-> FALSE, err |-> Err("ValueError", "Value is not in the valid range"), v |-> value]
    ELSE [ok |-> TRUE, err |-> NoErr, v |-> value]

UserUid(v) == RangedId(v, UserUid_min, UserUid_max)

UserGid(v) == RangedId(v, UserGid_min, UserGid_max)

GroupGid(v) == RangedId(v, GroupGid_min, GroupGid_max)

GroupAdminUid(v) == RangedId(v, GroupAdminUid_min, GroupAdminUid_max)

UbuntuName_MAX_LEN == 32

\* UbuntuName.is_valid: re.match("^[a-z][a-z0-9-]{0,31}$", name)
UbuntuName_is_valid(name) ==
    /\ Len(name) <= UbuntuName_MAX_LEN
    /\ Len(name) >= 1
    /\ IsLower(name[1])
    /\ \A i \in 2..Len(name) : IsLower(name[i]) \/ IsDigit(name[i]) \/ name[i] = "-"

UbuntuName(name) ==
    IF ~UbuntuName_is_valid(name)
    THEN Fail(Err("ValueError", "Value is not a valid Ubuntu user or group name"))
    ELSE Ok(name)

(***************************************************************************)
(* username.py                                                             *)
(***************************************************************************)
\* DEPLOYMENT_NAME is not set: get_group_prefix() returns "g" + "-"
GroupPrefix == <<"g", "-">>

UserPrefix == <<"u", "-">>

\* the loop of make_unique; hasTail stands for: tail is not None
RECURSIVE MakeUniqueLoop(_, _, _, _, _, _, _)
MakeUniqueLoop(candidate, existing, max_length, unique, counter, tail, hasTail) ==
    IF ~(unique \in existing \/ Len(unique) > max_length) THEN unique
    ELSE LET u1 == IF Len(unique) > max_length
                   THEN Take(candidate, max_length - Len(DecStr(counter)) - 1)
                   ELSE unique
             u2 == IF hasTail /\ EndsWith(u1, tail)
                   THEN Take(u1, Len(u1) - Len(tail))
                   ELSE u1
             newTail == <<"-">> \o DecStr(counter)
         IN MakeUniqueLoop(candidate, existing, max_length, u2 \o newTail,
                           counter + 1, newTail, TRUE)

\* a make_unique that only truncates
make_unique_NoCheck(candidate, existing, max_length) ==
    UbuntuName(Take(candidate, max_length))

make_unique(candidate, existing, max_length) ==
    UbuntuName(MakeUniqueLoop(candidate, existing, max_length, candidate, 1, <<>>, FALSE))

\* ascii_equivalent.split("@")[0]
RECURSIVE BeforeAt(_)
BeforeAt(s) == IF s = <<>> \/ Head(s) = "@" THEN <<>> ELSE <<Head(s)>> \o BeforeAt(Tail(s))

\* re.sub(r"[\s_\.]", "-", s.lower())
Dashify(s) == [i \in DOMAIN s |->
                 IF IsSpace(s[i]) \/ s[i] \in {"_", "."} THEN "-" ELSE Lower(s[i])]

\* while "--" in s: s = s.replace("--", "-")
RECURSIVE CollapseDashes(_)
CollapseDashes(s) ==
    IF Len(s) < 2 THEN s
    ELSE IF s[1] = "-" /\ s[2] = "-" THEN CollapseDashes(Tail(s))
    ELSE <<s[1]>> \o CollapseDashes(Tail(s))

\* while s and s.endswith("-"): s = s[:-1]
RECURSIVE StripTrailingDashes(_)
StripTrailingDashes(s) ==
    IF s # <<>> /\ s[Len(s)] = "-" THEN StripTrailingDashes(Take(s, Len(s) - 1)) ELSE s

\* a to_valid_username that returns the name as it came
to_valid_username_Raw(username, existing_names, kind) == Ok(username)

RECURSIVE to_valid_username(_, _, _)
to_valid_username(username, existing_names, kind) ==
    LET prefix == IF kind # "user" THEN GroupPrefix ELSE UserPrefix
        prefixed(e) ==
            IF ~e.ok THEN Fail(e.err)
            ELSE to_valid_username(e.v, existing_names, "user")
        unique(u) ==
            IF ~u.ok THEN u
            ELSE IF ~UbuntuName_is_valid(u.v)
            THEN Fail(Err("ValueError", "Generated name is not valid for Ubuntu."))
            ELSE IF u.v \o <<"-">> = prefix \/ u.v = prefix
            THEN Fail(Err("ValueError", "Generated name is a degenerate form"))
            ELSE UbuntuName(u.v)
        squashed(valid_chars) ==
            IF ~(valid_chars # <<>> /\ IsLower(valid_chars[1]))
            THEN prefixed(StsciEzid(PyStr(prefix \o valid_chars)))
            ELSE unique(make_unique(Take(StripTrailingDashes(CollapseDashes(valid_chars)),
                                         UbuntuName_MAX_LEN),
                                    existing_names, UbuntuName_MAX_LEN))
    IN squashed(FilterStr(Dashify(BeforeAt(username)),
                          Range(LowerChars) \cup Range(DigitChars) \cup {"-"}))

(***************************************************************************)
(* Optional arguments: None or a value.                                    *)
(***************************************************************************)
NoneStr == [some |-> FALSE, v |-> <<>>]

NoneInt == [some |-> FALSE, v |-> 0]

NoneSet == [some |-> FALSE, v |-> {}]

Some(v) == [some |-> TRUE, v |-> v]

(***************************************************************************)
(* The seeded tables (uidgid/base.py, as the tests print them).  Of the    *)
(* 25 base users and 46 base groups the model keeps one of each kind: a    *)
(* system id below 1000, the id 1000 of jovyan, and the id 65534 above     *)
(* every range.  A seeded record has the fields from_string and            *)
(* add_stsci_attr_to_base give it: a seeded user has no usertype, and the  *)
(* member list of a seeded group is the (empty) string of its line, not a  *)
(* list (liststr).                                                         *)
(***************************************************************************)
NoneText == <<"N", "o", "n", "e">>

BaseUser(username, uid, gid) ==
    [username |-> username, uid |-> uid, gid |-> gid, uuid |-> NoneText,
     ezid |-> NoneText, status |-> "active", usertype |-> "absent"]

BaseGroup(groupname, gid) ==
    [teamname |-> groupname, groupname |-> groupname, gid |-> gid,
     grouplist |-> <<>>, liststr |-> TRUE, status |-> "active", usertype |-> "group"]

EtcPasswd_Base == << BaseUser(<<"r","o","o","t">>, 0, 0),
                     BaseUser(<<"n","o","b","o","d","y">>, 65534, 65534),
                     BaseUser(<<"j","o","v","y","a","n">>, 1000, 100) >>

EtcGroup_Base == << BaseGroup(<<"r","o","o","t">>, 0),
                    BaseGroup(<<"s","u","d","o">>, 27),
                    BaseGroup(<<"u","s","e","r","s">>, 100),
                    BaseGroup(<<"n","o","g","r","o","u","p">>, 65534) >>

(***************************************************************************)
(* Helpers on tables.                                                      *)
(***************************************************************************)
MinOf(S) == CHOOSE i \in S : \A j \in S : i <= j

\* a list that is left in the order it has
SortedSeq_Keep(l) == l

\* sorted(list of integers)
RECURSIVE SortedSeq(_)
SortedSeq(l) ==
    IF l = <<>> THEN <<>>
    ELSE LET i == CHOOSE a \in DOMAIN l : \A b \in DOMAIN l : l[a] <= l[b]
         IN <<l[i]>> \o SortedSeq(SubSeq(l, 1, i - 1) \o SubSeq(l, i + 1, Len(l)))

\* list.remove(x): the first occurrence
RemoveFirst(l, x) ==
    IF ~InList(x, l) THEN l
    ELSE LET i == MinOf({a \in DOMAIN l : l[a] = x})
         IN SubSeq(l, 1, i - 1) \o SubSeq(l, i + 1, Len(l))

\* an allocation that steps over as many ids as the table has records
NextFree_Skip(n, used) == n + Cardinality(used)

\* new_id = n; while new_id in used: new_id += 1 -- the smallest id >= n that
\* is not in used, which is at most n + len(used)
NextFree(n, used) ==
    CHOOSE m \in n..(n + Cardinality(used)) :
       m \notin used /\ \A k \in n..(m - 1) : k \in used

\* entry[id_type] of a user record and of a group record
UserKey(e, id_type) ==
    CASE id_type = "uuid" -> e.uuid
      [] id_type = "ezid" -> e.ezid
      [] id_type = "username" -> e.username

GroupKey(e, id_type) ==
    CASE id_type = "teamname" -> e.teamname
      [] id_type = "groupname" -> e.groupname

(***************************************************************************)
(* users.py                                                                *)
(***************************************************************************)
all_uids(U) == {U[i].uid : i \in DOMAIN U}

all_uuids(U) == {U[i].uuid : i \in DOMAIN U}

all_usernames(U) == {U[i].username : i \in DOMAIN U}

get_new_uid(U, usertype) ==
    IF usertype = "individual"
    THEN UserUid(NextFree(UserUid_min, all_uids(U)))
    ELSE GroupAdminUid(NextFree(GroupAdminUid_min, all_uids(U)))

\* existing_names = existing_names or self.all_usernames
get_new_username(U, ezid, existing_names) ==
    to_valid_username(ezid,
                      IF existing_names.some /\ existing_names.v # {}
                      THEN existing_names.v ELSE all_usernames(U),
                      "user")

\* user_exist that counts the active records only
user_exist_Active(U, x) ==
    x.t = "str" /\ \E i \in DOMAIN U : U[i].uuid = x.s /\ U[i].status = "active"

\* user_exist(id) with id_type uuid: the argument is compared as it was given
user_exist(U, x) == x.t = "str" /\ x.s \in all_uuids(U)

UserFail(U, e) == [ok |-> FALSE, err |-> e, users |-> U, user |-> BaseUser(<<>>, 0, 0)]

add_user_checked(U, uuid, ezid, username, uid, gid, status, usertype) ==
    LET checked(cn, cu, ce, cuid, cgid) ==
            IF ~cn.ok THEN UserFail(U, cn.err)
            ELSE IF ~cu.ok THEN UserFail(U, cu.err)
            ELSE IF ~ce.ok THEN UserFail(U, ce.err)
            ELSE IF ~cuid.ok THEN UserFail(U, cuid.err)
            ELSE IF ~cgid.ok THEN UserFail(U, cgid.err)
            ELSE [ok |-> TRUE, err |-> NoErr,
                  users |-> Append(U, [username |-> username, uid |-> uid, gid |-> gid,
                                       uuid |-> cu.v, ezid |-> ce.v, status |-> status,
                                       usertype |-> usertype]),
                  user |-> [username |-> username, uid |-> uid, gid |-> gid,
                            uuid |-> cu.v, ezid |-> ce.v, status |-> status,
                            usertype |-> usertype]]
    IN checked(UbuntuName(username), StsciUuid(uuid), StsciEzid(ezid),
               IF usertype = "individual" THEN UserUid(uid) ELSE GroupAdminUid(uid),
               IF usertype = "individual" THEN UserGid(gid) ELSE GroupGid(gid))

add_user(U, uuid, ezid, username, uid, gid, usertype, existing_names) ==
    LET with_gid(n, u, g) ==
            IF ~g.ok THEN UserFail(U, g.err)
            ELSE add_user_checked(U, uuid, ezid, n.v, u.v, g.v, "active", usertype)
        with_uid(n, u) ==
            IF ~u.ok THEN UserFail(U, u.err)
            ELSE with_gid(n, u, IF gid.some THEN Ok(gid.v) ELSE UserGid(u.v))
        with_name(n) ==
            IF ~n.ok THEN UserFail(U, n.err)
            ELSE with_uid(n, IF uid.some THEN Ok(uid.v) ELSE get_new_uid(U, usertype))
    IN IF user_exist(U, uuid) /\ uuid # PyStr(ZeroUuid)
       THEN UserFail(U, Err("RuntimeError", "User with UUID already exists"))
       ELSE IF ezid = PyStr(<<>>) /\ ~username.some
       THEN UserFail(U, Err("Exception", "Please provide an ezid or username"))
       ELSE IF ~username.some /\ ezid.t # "str"
       THEN UserFail(U, Err("TypeError", "ezid is not a string"))
       ELSE with_name(IF username.some THEN Ok(username.v)
                      ELSE get_new_username(U, ezid.s, existing_names))

\* a deletion that takes the matching record out of the table
delete_user_Remove(U, id, id_type) ==
    SelectSeq(U, LAMBDA e : UserKey(e, id_type) # id)

delete_user(U, id, id_type) ==
    LET deactivate(hits) ==
            IF hits = {} THEN U
            ELSE [U EXCEPT ![MinOf(hits)].status = "deactivated"]
    IN deactivate({i \in DOMAIN U : UserKey(U[i], id_type) = id})

get_user_info_entry(U, e) ==
    LET checked(cu, cn, cuid, cgid) ==
            IF ~cu.ok THEN UserFail(U, cu.err)
            ELSE IF ~cn.ok THEN UserFail(U, cn.err)
            ELSE IF e.usertype = "absent" THEN UserFail(U, Err("KeyError", "usertype"))
            ELSE IF ~cuid.ok THEN UserFail(U, cuid.err)
            ELSE IF ~cgid.ok THEN UserFail(U, cgid.err)
            ELSE [ok |-> TRUE, err |-> NoErr, users |-> U, user |-> e]
    IN checked(StsciUuid(PyStr(e.uuid)), UbuntuName(e.username),
               IF e.usertype = "individual" THEN UserUid(e.uid) ELSE GroupAdminUid(e.uid),
               IF e.usertype = "individual" THEN UserGid(e.gid) ELSE GroupGid(e.gid))

get_user_info(U, id, id_type) ==
    LET found(hits) ==
            IF hits = {} THEN UserFail(U, Err("RuntimeError", "User not found"))
            ELSE get_user_info_entry(U, U[MinOf(hits)])
    IN found({i \in DOMAIN U :
                IF id_type = "uid" THEN U[i].uid = id ELSE UserKey(U[i], id_type) = id})

\* get_active_user_string: the lines of the records with status active
RECURSIVE get_active_user_string(_)
get_active_user_string(U) ==
    IF U = <<>> THEN <<>>
    ELSE (IF Head(U).status = "active"
          THEN <<<<Head(U).username, Head(U).uid, Head(U).gid>>>> ELSE <<>>)
         \o get_active_user_string(Tail(U))

\* to_string of the user table: one line per record, the fields that vary
get_etc_passwd_string(U) == [i \in DOMAIN U |-> <<U[i].username, U[i].uid, U[i].gid>>]

(***************************************************************************)
(* groups.py                                                               *)
(***************************************************************************)
GrouplistMax == 32768

all_gids(G) == {G[i].gid : i \in DOMAIN G}

all_groupnames(G) == {G[i].groupname : i \in DOMAIN G}

all_teamnames(G) == {G[i].teamname : i \in DOMAIN G}

team_exist(G, teamname) == teamname \in all_teamnames(G)

group_exist(G, groupname) == groupname \in all_groupnames(G)

gid_exist(G, gid) == gid \in all_gids(G)

get_new_gid(G, usertype) ==
    IF usertype = "individual"
    THEN UserGid(NextFree(UserGid_min, all_gids(G)))
    ELSE GroupGid(NextFree(GroupGid_min, all_gids(G)))

\* existing_names = existing_names or self.all_groupnames
get_new_groupname(G, teamname, existing_names) ==
    to_valid_username(teamname,
                      IF existing_names.some /\ existing_names.v # {}
                      THEN existing_names.v ELSE all_groupnames(G),
                      "group")

NoGroup == [teamname |-> <<>>, groupname |-> <<>>, gid |-> 0, grouplist |-> <<>>,
            liststr |-> FALSE, status |-> "active", usertype |-> "group"]

GroupFail(G, e) == [ok |-> FALSE, err |-> e, groups |-> G, group |-> NoGroup]

create_new_group(G, teamname, groupname, gid, usertype, existing_names) ==
    LET checked(n, g, cn, cg) ==
            IF ~cg.ok THEN GroupFail(G, cg.err)
            ELSE IF ~cn.ok THEN GroupFail(G, cn.err)
            ELSE [ok |-> TRUE, err |-> NoErr,
                  groups |-> Append(G, [teamname |-> teamname, groupname |-> n.v,
                                        gid |-> g.v, grouplist |-> <<>>,
                                        liststr |-> FALSE, status |-> "active",
                                        usertype |-> usertype]),
                  group |-> [teamname |-> teamname, groupname |-> n.v,
                             gid |-> g.v, grouplist |-> <<>>,
                             liststr |-> FALSE, status |-> "active",
                             usertype |-> usertype]]
        with_gid(n, g) ==
            IF ~g.ok THEN GroupFail(G, g.err)
            ELSE checked(n, g, UbuntuName(n.v),
                         IF usertype = "individual" THEN UserGid(g.v) ELSE GroupGid(g.v))
        with_name(n) ==
            IF ~n.ok THEN GroupFail(G, n.err)
            ELSE with_gid(n, IF ~gid.some THEN get_new_gid(G, usertype)
                             ELSE IF gid_exist(G, gid.v)
                             THEN Fail(Err("RuntimeError", "GID already exist."))
                             ELSE Ok(gid.v))
    IN IF team_exist(G, teamname)
       THEN GroupFail(G, Err("RuntimeError", "Team already exists."))
       ELSE with_name(IF groupname.some THEN Ok(groupname.v)
                      ELSE get_new_groupname(G, teamname, existing_names))

delete_group(G, groupname) ==
    LET deactivate(hits) ==
            IF hits = {} THEN G
            ELSE [G EXCEPT ![MinOf(hits)].status = "deactivated"]
    IN deactivate({i \in DOMAIN G : G[i].groupname = groupname})

get_group_info(G, id, id_type) ==
    LET checked(e, cn, cg) ==
            IF ~cn.ok THEN GroupFail(G, cn.err)
            ELSE IF ~cg.ok THEN GroupFail(G, cg.err)
            ELSE [ok |-> TRUE, err |-> NoErr, groups |-> G, group |-> e]
        entry(e) ==
            checked(e, UbuntuName(e.groupname),
                    IF e.usertype = "individual" THEN UserGid(e.gid) ELSE GroupGid(e.gid))
        found(hits) ==
            IF hits = {} THEN GroupFail(G, Err("RuntimeError", "Group does not exist."))
            ELSE entry(G[MinOf(hits)])
    IN found({i \in DOMAIN G : GroupKey(G[i], id_type) = id})

lookup_gid(G, groupname) == G[MinOf({i \in DOMAIN G : G[i].groupname = groupname})].gid

\* username in entry["grouplist"]: an element of a list; a substring of the
\* string a seeded group has, which is empty and so has no username in it
InGrouplist(username, e) == IF e.liststr THEN FALSE ELSE InList(username, e.grouplist)

add_user_to_group(G, username, groupname) ==
    LET appended(i, G2) == [ok |-> TRUE, err |-> NoErr, groups |-> G2, group |-> G2[i]]
        entry(i) ==
            IF Len(G[i].grouplist) >= GrouplistMax
            THEN GroupFail(G, Err("RuntimeError", "Too many users in group."))
            ELSE IF InGrouplist(username, G[i])
            THEN [ok |-> TRUE, err |-> NoErr, groups |-> G, group |-> G[i]]
            ELSE IF G[i].liststr
            THEN GroupFail(G, Err("AttributeError", "str object has no attribute append"))
            ELSE appended(i, [G EXCEPT ![i].grouplist = Append(@, username)])
    IN IF ~group_exist(G, groupname)
       THEN GroupFail(G, Err("ValueError", "Group does not exist"))
       ELSE entry(MinOf({a \in DOMAIN G : G[a].groupname = groupname}))

remove_user_from_group(G, username, groupname) ==
    LET removed(i, G2) == [ok |-> TRUE, err |-> NoErr, groups |-> G2, group |-> G2[i]]
        entry(i) ==
            IF ~InGrouplist(username, G[i])
            THEN [ok |-> TRUE, err |-> NoErr, groups |-> G, group |-> G[i]]
            ELSE removed(i, [G EXCEPT ![i].grouplist = RemoveFirst(@, username)])
    IN IF ~group_exist(G, groupname)
       THEN GroupFail(G, Err("Exception", "Group does not exist"))
       ELSE entry(MinOf({a \in DOMAIN G : G[a].groupname = groupname}))

get_users_of_group(G, groupname) ==
    LET members(e) == IF e.liststr THEN <<>> ELSE e.grouplist
    IN members(G[MinOf({i \in DOMAIN G : G[i].groupname = groupname})])

\* the groupnames, in table order, of the records that list the user
RECURSIVE get_groups_of_user(_, _)
get_groups_of_user(G, username) ==
    IF G = <<>> THEN <<>>
    ELSE (IF InGrouplist(username, Head(G)) THEN <<Head(G).groupname>> ELSE <<>>)
         \o get_groups_of_user(Tail(G), username)

\* to_string of the group table: the member list is rendered comma-joined
get_etc_group_string(G) ==
    [i \in DOMAIN G |-> <<G[i].groupname, G[i].gid,
                          IF G[i].liststr THEN <<>> ELSE JoinComma(G[i].grouplist)>>]

\* get_active_group_string: the lines of the records with status active
RECURSIVE get_active_group_string(_)
get_active_group_string(G) ==
    IF G = <<>> THEN <<>>
    ELSE (IF Head(G).status = "active"
          THEN <<<<Head(G).groupname, Head(G).gid,
                   IF Head(G).liststr THEN <<>> ELSE JoinComma(Head(G).grouplist)>>>>
          ELSE <<>>)
         \o get_active_group_string(Tail(G))

\* what to_string and get_active_group_string leave in file_dict: the member
\* list of every record, or of every active one, is now the string that was
\* joined from it, kept as the only element of grouplist
to_string_file_dict(G, every) ==
    [i \in DOMAIN G |->
       IF ~every /\ G[i].status # "active" THEN G[i]
       ELSE IF G[i].liststr \/ G[i].grouplist = <<>>
       THEN [G[i] EXCEPT !.liststr = TRUE]
       ELSE [G[i] EXCEPT !.liststr = TRUE, !.grouplist = <<JoinComma(@)>>]]

(***************************************************************************)
(* main.py: the steps of _locked_get_spawn_info as functions of the two    *)
(* files.  A step that raises returns the files as the writes made before  *)
(* the raise left them.                                                    *)
(***************************************************************************)
AdminSuffix == <<"-", "a", "d", "m", "i", "n">>

all_names(U, G) == all_usernames(U) \cup all_groupnames(G)

\* str(uuid.uuid4()): a uuid no record has; the n-th one ends in the digits of n
FreshUuid(n) == Rep("f", 8) \o <<"-">> \o Rep("f", 4) \o <<"-">> \o <<"4">> \o Rep("f", 3)
                \o <<"-">> \o <<"a">> \o Rep("f", 3) \o <<"-">>
                \o Rep("0", 12 - Len(DecStr(n))) \o DecStr(n)

uuid4(U) == FreshUuid(Cardinality({i \in DOMAIN U : U[i].usertype = "group"}))

StepResult(ok, err, U, G, username, uid) ==
    [ok |-> ok, err |-> err, users |-> U, groups |-> G, username |-> username, uid |-> uid]

\* add_user_to_group, then the get_group_info of the log line
add_member(G, username, groupname) ==
    LET logged(a, i) == IF ~i.ok THEN GroupFail(a.groups, i.err) ELSE a
        added(a) == IF ~a.ok THEN a
                    ELSE logged(a, get_group_info(a.groups, groupname, "groupname"))
    IN added(add_user_to_group(G, username, groupname))

remove_member(G, username, groupname) ==
    LET logged(a, i) == IF ~i.ok THEN GroupFail(a.groups, i.err) ELSE a
        removed(a) == IF ~a.ok THEN a
                      ELSE logged(a, get_group_info(a.groups, groupname, "groupname"))
    IN removed(remove_user_from_group(G, username, groupname))

DirError == Err("OSError", "directory creation or chown failed")

\* create_or_fetch_user; dirOK: create_home_directory does not raise
create_or_fetch_user(U, G, stsci_uuid, stsci_ezid, dirOK) ==
    LET joined(a, m) ==
            IF ~m.ok THEN StepResult(FALSE, m.err, a.users, m.groups, <<>>, 0)
            ELSE IF ~dirOK
            THEN StepResult(FALSE, DirError, a.users, m.groups, <<>>, 0)
            ELSE StepResult(TRUE, NoErr, a.users, m.groups,
                            a.user.username, a.user.uid)
        grouped(a, pg) ==
            IF ~pg.ok THEN StepResult(FALSE, pg.err, a.users, G, <<>>, 0)
            ELSE joined(a, add_member(pg.groups, a.user.username, pg.group.groupname))
        named(a, tn, gn, gi) ==
            IF ~tn.ok THEN StepResult(FALSE, tn.err, a.users, G, <<>>, 0)
            ELSE IF ~gn.ok THEN StepResult(FALSE, gn.err, a.users, G, <<>>, 0)
            ELSE IF ~gi.ok THEN StepResult(FALSE, gi.err, a.users, G, <<>>, 0)
            ELSE grouped(a, create_new_group(G, tn.v, Some(gn.v), Some(gi.v), "individual",
                                             Some(all_names(a.users, G))))
        added(a) ==
            IF ~a.ok THEN StepResult(FALSE, a.err, U, G, <<>>, 0)
            ELSE named(a, TeamName(PyStr(a.user.ezid)), UbuntuName(a.user.username),
                       UserGid(a.user.uid))
        fetched(u, pg) ==
            IF ~pg.ok THEN StepResult(FALSE, pg.err, U, G, <<>>, 0)
            ELSE StepResult(TRUE, NoErr, U, G, u.user.username, u.user.uid)
        found(u) ==
            IF ~u.ok THEN StepResult(FALSE, u.err, U, G, <<>>, 0)
            ELSE fetched(u, get_group_info(G, u.user.username, "groupname"))
    IN IF ~user_exist(U, PyStr(stsci_uuid))
       THEN added(add_user(U, PyStr(stsci_uuid), PyStr(stsci_ezid), NoneStr, NoneInt,
                           NoneInt, "individual", Some(all_names(U, G))))
       ELSE found(get_user_info(U, stsci_uuid, "uuid"))

\* a team created without its admin user
create_group_NoAdmin(U, G, username, teamname, dirOK) ==
    LET joined(m1) ==
            IF ~m1.ok THEN StepResult(FALSE, m1.err, U, m1.groups, username, 0)
            ELSE IF ~dirOK THEN StepResult(FALSE, DirError, U, m1.groups, username, 0)
            ELSE StepResult(TRUE, NoErr, U, m1.groups, username, 0)
        created(g) ==
            IF ~g.ok THEN StepResult(FALSE, g.err, U, G, username, 0)
            ELSE joined(add_member(g.groups, username, g.group.groupname))
    IN created(create_new_group(G, teamname, NoneStr, NoneInt, "group", NoneSet))

\* the branch of create_or_fetch_group that creates the team
create_group(U, G, username, teamname, dirOK) ==
    LET admin_joined(a, m2) ==
            IF ~m2.ok
            THEN StepResult(FALSE, m2.err, a.users, m2.groups, username, 0)
            ELSE IF ~dirOK
            THEN StepResult(FALSE, DirError, a.users, m2.groups, username, 0)
            ELSE StepResult(TRUE, NoErr, a.users, m2.groups, username, 0)
        joined(g, a, m1, an) ==
            IF ~m1.ok THEN StepResult(FALSE, m1.err, a.users, m1.groups, username, 0)
            ELSE IF ~an.ok
            THEN StepResult(FALSE, an.err, a.users, m1.groups, username, 0)
            ELSE admin_joined(a, add_member(m1.groups, an.v, g.group.groupname))
        added(g, a) ==
            IF ~a.ok THEN StepResult(FALSE, a.err, U, g.groups, username, 0)
            ELSE joined(g, a, add_member(g.groups, username, g.group.groupname),
                        UbuntuName(g.group.groupname \o AdminSuffix))
        ranged(g, au, ag) ==
            IF ~au.ok THEN StepResult(FALSE, au.err, U, g.groups, username, 0)
            ELSE added(g, add_user(U, PyStr(uuid4(U)),
                                   PyStr(g.group.groupname \o AdminSuffix),
                                   NoneStr, Some(au.v), Some(ag.v), "group",
                                   Some(all_names(U, g.groups))))
        created(g) ==
            IF ~g.ok THEN StepResult(FALSE, g.err, U, G, username, 0)
            ELSE ranged(g, GroupAdminUid(g.group.gid), GroupGid(g.group.gid))
    IN created(create_new_group(G, teamname, NoneStr, NoneInt, "group", NoneSet))

\* a fetch that puts the user into the first group of the team, whatever its
\* gid and its member list are
fetch_group_Join(U, G, username, teamname) ==
    LET joined(i) ==
            StepResult(TRUE, NoErr, U,
                       [G EXCEPT ![i].grouplist = Append(@, username)], username, 0)
    IN joined(MinOf({i \in DOMAIN G : G[i].teamname = teamname}))

\* the branch of create_or_fetch_group that fetches the team
fetch_group(U, G, username, teamname) ==
    LET joined(m) == StepResult(m.ok, m.err, U, m.groups, username, 0)
        admin(g, au) ==
            IF ~au.ok THEN StepResult(FALSE, au.err, U, G, username, 0)
            ELSE IF InList(username, get_users_of_group(G, g.group.groupname))
            THEN StepResult(TRUE, NoErr, U, G, username, 0)
            ELSE joined(add_member(G, username, g.group.groupname))
        found(g) ==
            IF ~g.ok THEN StepResult(FALSE, g.err, U, G, username, 0)
            ELSE admin(g, IF g.group.gid >= GroupGid_min
                          THEN get_user_info(U, g.group.gid, "uid")
                          ELSE [ok |-> TRUE, err |-> NoErr])
    IN found(get_group_info(G, teamname, "teamname"))

\* a team that is created without a look at the teams there are
create_or_fetch_group_Create(U, G, username, teamname, dirOK) ==
    create_group(U, G, username, teamname, dirOK)

create_or_fetch_group(U, G, username, teamname, dirOK) ==
    IF ~team_exist(G, teamname)
    THEN create_group(U, G, username, teamname, dirOK)
    ELSE fetch_group(U, G, username, teamname)

\* teamnames_to_groupnames: the groupnames, or the error of the first failing lookup
RECURSIVE teamnames_to_groupnames(_, _)
teamnames_to_groupnames(G, teamnames) ==
    LET listed(g, r) ==
            IF ~g.ok THEN Fail(g.err)
            ELSE IF ~r.ok THEN r
            ELSE Ok(<<g.group.groupname>> \o r.v)
    IN IF teamnames = <<>> THEN Ok(<<>>)
       ELSE listed(get_group_info(G, Head(teamnames), "teamname"),
                   teamnames_to_groupnames(G, Tail(teamnames)))

\* the loop of remove_obsolete_group_memberships over group_names
RECURSIVE RemoveLoop(_, _, _, _)
RemoveLoop(G, username, group_names, keep) ==
    LET removed(r) ==
            IF ~r.ok THEN [ok |-> FALSE, err |-> r.err, groups |-> r.groups]
            ELSE RemoveLoop(r.groups, username, Tail(group_names), keep)
    IN IF group_names = <<>> THEN [ok |-> TRUE, err |-> NoErr, groups |-> G]
       ELSE IF InList(Head(group_names), keep)
       THEN RemoveLoop(G, username, Tail(group_names), keep)
       ELSE removed(remove_member(G, username, Head(group_names)))

\* a reconciliation that keeps by team name where the groups go by groupname
remove_obsolete_ByTeamname(U, G, username, team_names) ==
    LET looped(r) == StepResult(r.ok, r.err, U, r.groups, username, 0)
    IN looped(RemoveLoop(G, username, get_groups_of_user(G, username),
                         team_names \o <<username>>))

remove_obsolete_group_memberships(U, G, username, team_names) ==
    LET looped(r) == StepResult(r.ok, r.err, U, r.groups, username, 0)
        listed(group_names, team_groups) ==
            IF ~team_groups.ok THEN StepResult(FALSE, team_groups.err, U, G, username, 0)
            ELSE looped(RemoveLoop(G, username, group_names,
                                   team_groups.v \o <<username>>))
    IN listed(get_groups_of_user(G, username), teamnames_to_groupnames(G, team_names))

NoInfo == [uid |-> 0, gid |-> 0, all_user_gids |-> <<>>, username |-> <<>>,
           groupname |-> <<>>, etc_passwd |-> <<>>, etc_group |-> <<>>]

ActiveTeamError(active_team, teams) ==
    [type |-> "ValueError", what |-> "Active team not in user's teams",
     team |-> active_team, teams |-> teams]

\* the SpawnInfo of the active team, whether the user asked to be in it or not
resolve_active_team_NoGuard(U, G, username, uid, stsci_ezid, active_team, teams) ==
    LET spawn_info(g_info, ugroups) ==
            IF ~g_info.ok THEN [ok |-> FALSE, err |-> g_info.err, info |-> NoInfo]
            ELSE [ok |-> TRUE, err |-> NoErr,
                  info |-> [uid |-> uid,
                            gid |-> g_info.group.gid,
                            all_user_gids |-> SortedSeq([i \in DOMAIN ugroups |->
                                                           lookup_gid(G, ugroups[i])]),
                            username |-> username,
                            groupname |-> g_info.group.groupname,
                            etc_passwd |-> get_etc_passwd_string(U),
                            etc_group |-> get_etc_group_string(G)]]
    IN spawn_info(get_group_info(G, active_team, "teamname"),
                  get_groups_of_user(G, username))

\* the end of _locked_get_spawn_info: the active-team guard and the SpawnInfo
resolve_active_team(U, G, username, uid, stsci_ezid, active_team, teams) ==
    LET spawn_info(g_info, ugroups) ==
            IF ~g_info.ok THEN [ok |-> FALSE, err |-> g_info.err, info |-> NoInfo]
            ELSE [ok |-> TRUE, err |-> NoErr,
                  info |-> [uid |-> uid,
                            gid |-> g_info.group.gid,
                            all_user_gids |-> SortedSeq([i \in DOMAIN ugroups |->
                                                           lookup_gid(G, ugroups[i])]),
                            username |-> username,
                            groupname |-> g_info.group.groupname,
                            etc_passwd |-> get_etc_passwd_string(U),
                            etc_group |-> get_etc_group_string(G)]]
    IN IF InList(active_team, teams \o <<stsci_ezid>>)
       THEN spawn_info(get_group_info(G, active_team, "teamname"),
                       get_groups_of_user(G, username))
       ELSE [ok |-> FALSE, err |-> ActiveTeamError(active_team, teams), info |-> NoInfo]

(***************************************************************************)
(* backup.py: encode and decode.  A byte string is a sequence of numbers   *)
(* 0..255, a blob a sequence of characters.                                *)
(***************************************************************************)
\* the alphabet of base64.b64encode
B64Chars ==
    <<"A","B","C","D","E","F","G","H","I","J","K","L","M","N","O","P",
      "Q","R","S","T","U","V","W","X","Y","Z","a","b","c","d","e","f",
      "g","h","i","j","k","l","m","n","o","p","q","r","s","t","u","v",
      "w","x","y","z","0","1","2","3","4","5","6","7","8","9","+","/">>

B64Value(c) == (CHOOSE i \in DOMAIN B64Chars : B64Chars[i] = c) - 1

\* base64.b64encode(...).decode(encoding): three bytes make four characters
\* of the alphabet, which utf-8 decodes one to one; "=" pads the last group
RECURSIVE b64encode(_)
b64encode(b) ==
    IF b = <<>> THEN <<>>
    ELSE IF Len(b) = 1
    THEN <<B64Chars[(b[1] \div 4) + 1], B64Chars[(b[1] % 4) * 16 + 1], "=", "=">>
    ELSE IF Len(b) = 2
    THEN <<B64Chars[(b[1] \div 4) + 1],
           B64Chars[(b[1] % 4) * 16 + (b[2] \div 16) + 1],
           B64Chars[(b[2] % 16) * 4 + 1], "=">>
    ELSE <<B64Chars[(b[1] \div 4) + 1],
           B64Chars[(b[1] % 4) * 16 + (b[2] \div 16) + 1],
           B64Chars[(b[2] % 16) * 4 + (b[3] \div 64) + 1],
           B64Chars[(b[3] % 64) + 1]>> \o b64encode(Drop(b, 3))

\* the bytes of groups of four characters, the last of which may be padded
RECURSIVE b64quads(_)
b64quads(s) ==
    IF s = <<>> THEN <<>>
    ELSE IF s[3] = "="
    THEN <<B64Value(s[1]) * 4 + (B64Value(s[2]) \div 16)>>
    ELSE IF s[4] = "="
    THEN <<B64Value(s[1]) * 4 + (B64Value(s[2]) \div 16),
           (B64Value(s[2]) % 16) * 16 + (B64Value(s[3]) \div 4)>>
    ELSE <<B64Value(s[1]) * 4 + (B64Value(s[2]) \div 16),
           (B64Value(s[2]) % 16) * 16 + (B64Value(s[3]) \div 4),
           (B64Value(s[3]) % 4) * 64 + B64Value(s[4])>> \o b64quads(Drop(s, 4))

\* base64.b64decode(data.encode(encoding)): characters outside the alphabet
\* are dropped, and binascii.Error, a ValueError, is raised for what is left
\* if it is not made of groups of four with padding at the end only
b64decode(data) ==
    LET s == SelectSeq(data, LAMBDA c : c = "=" \/ c \in Range(B64Chars))
        pad_ok == \A i \in DOMAIN s :
                     s[i] = "=" => /\ i > Len(s) - 2
                                   /\ i > 2
                                   /\ \A j \in i..Len(s) : s[j] = "="
    IN IF Len(s) % 4 = 0 /\ pad_ok THEN Ok(b64quads(s))
       ELSE Fail(Err("ValueError", "Incorrect padding"))

\* the marks of a bz2 stream: "BZh9", the start of a block, the end of the stream
BZ2Header == <<66, 90, 104, 57>>

BZ2Block == <<49, 65, 89, 38, 83, 89>>

BZ2End == <<23, 114, 69, 56, 80, 144>>

RECURSIVE ByteSum(_)
ByteSum(b) == IF b = <<>> THEN 0 ELSE (Head(b) + ByteSum(Tail(b))) % 256

\* the four bytes of the checksum a stream carries; the sum of the bytes
\* stands for the CRC: 0 for the empty string, as in the stream
BZ2Check(b) == <<0, 0, 0, ByteSum(b)>>

\* the number of bytes at the head of b that equal its first, up to cap
RECURSIVE RunLength(_, _)
RunLength(b, cap) ==
    IF b = <<>> \/ cap = 0 THEN 0
    ELSE IF Len(b) > 1 /\ b[2] = b[1] THEN 1 + RunLength(Tail(b), cap - 1)
    ELSE 1

\* the first stage of the compression: a run of 4 to 255 equal bytes becomes
\* four of them and the number of the others
RECURSIVE RunEncode(_)
RunEncode(b) ==
    IF b = <<>> THEN <<>>
    ELSE IF RunLength(b, 255) < 4
    THEN Rep(b[1], RunLength(b, 255)) \o RunEncode(Drop(b, RunLength(b, 255)))
    ELSE Rep(b[1], 4) \o <<RunLength(b, 255) - 4>> \o RunEncode(Drop(b, RunLength(b, 255)))

RECURSIVE RunDecode(_)
RunDecode(z) ==
    IF z = <<>> THEN Ok(<<>>)
    ELSE IF RunLength(z, 4) < 4
    THEN (LET r == RunDecode(Drop(z, RunLength(z, 4)))
          IN IF r.ok THEN Ok(Rep(z[1], RunLength(z, 4)) \o r.v) ELSE r)
    ELSE IF Len(z) < 5 THEN Fail(Err("OSError", "Invalid data stream"))
    ELSE (LET r == RunDecode(Drop(z, 5))
          IN IF r.ok THEN Ok(Rep(z[1], 4 + z[5]) \o r.v) ELSE r)

\* bz2.compress: the header, one block with its checksum and the run-coded
\* bytes if there are any (the later stages of the block coding, which are
\* one to one, are left out), the end mark and the checksum of the stream
bz2_compress(data) ==
    IF data = <<>> THEN BZ2Header \o BZ2End \o BZ2Check(data)
    ELSE BZ2Header \o BZ2Block \o BZ2Check(data) \o RunEncode(data)
           \o BZ2End \o BZ2Check(data)

\* bz2.decompress: raises OSError or ValueError for what is not a stream
bz2_decompress(z) ==
    IF Len(z) < 14 \/ Take(z, 4) # BZ2Header
       \/ SubSeq(z, Len(z) - 9, Len(z) - 4) # BZ2End
    THEN Fail(Err("OSError", "Invalid data stream"))
    ELSE IF Len(z) = 14
    THEN (IF Drop(z, 10) = BZ2Check(<<>>) THEN Ok(<<>>) ELSE Fail(Err("OSError", "Invalid data stream")))
    ELSE IF Len(z) < 24 \/ SubSeq(z, 5, 10) # BZ2Block
            \/ SubSeq(z, 11, 14) # Drop(z, Len(z) - 4)
    THEN Fail(Err("OSError", "Invalid data stream"))
    ELSE (LET r == RunDecode(SubSeq(z, 15, Len(z) - 10))
          IN IF r.ok /\ BZ2Check(r.v) # SubSeq(z, 11, 14)
             THEN Fail(Err("OSError", "Invalid data stream"))
             ELSE r)

\* encode without the compression
encode_Plain(data) == b64encode(data)

encode(data) == b64encode(bz2_compress(data))

decode(data) ==
    LET b == b64decode(data)
    IN IF b.ok THEN bz2_decompress(b.v) ELSE b

\* decode_to_file: the file is opened with "wb+", which empties it, before
\* decode is called; old: the text of the file before
decode_to_file(old, data) ==
    LET r == decode(data)
    IN IF r.ok THEN r ELSE [r EXCEPT !.v = <<>>]

(***************************************************************************)
(* backup.py and the backup calls of main.py                               *)
(***************************************************************************)
BackupMaxCopies == 100

\* int(time.time()) at the start of the model
Epoch == 1700000000

\* the order of sorted() on the paths basename.<seconds>: the order of the texts
RECURSIVE StrLess(_, _)
StrLess(a, b) ==
    IF b = <<>> THEN FALSE
    ELSE IF a = <<>> THEN TRUE
    ELSE IF Head(a) = Head(b) THEN StrLess(Tail(a), Tail(b))
    ELSE (CHOOSE i \in DOMAIN DigitChars : DigitChars[i] = Head(a))
         < (CHOOSE i \in DOMAIN DigitChars : DigitChars[i] = Head(b))

\* the loop that unlinks the first of the sorted copies while there are too many
RECURSIVE PruneCopies(_, _, _)
PruneCopies(dir, basename, max_copies) ==
    LET pruned(copies) ==
            IF Cardinality(copies) <= max_copies THEN dir
            ELSE PruneCopies(dir \ {CHOOSE f \in copies :
                                      \A g \in copies :
                                        g = f \/ StrLess(DecStr(f.ts), DecStr(g.ts))},
                             basename, max_copies)
    IN pruned({f \in dir : f.name = basename})

\* backup_file without the loop that unlinks the old copies
backup_file_NoPrune(dir, basename, text, time, max_copies) ==
    {f \in dir : ~(f.name = basename /\ f.ts = time)}
      \cup {[name |-> basename, ts |-> time, text |-> text]}

backup_file(dir, basename, text, time, max_copies) ==
    PruneCopies({f \in dir : ~(f.name = basename /\ f.ts = time)}
                  \cup {[name |-> basename, ts |-> time, text |-> text]},
                basename, max_copies)

\* backup_rosetta_using_files; copied: the number of files copied before an
\* exception, which is caught, ended the function (2: none was raised)
backup_rosetta_using_files(dir, U, G, time, copied) ==
    LET groups_copied(d1) ==
            IF copied >= 2 THEN backup_file(d1, "all_groups.yaml", G, time, BackupMaxCopies)
            ELSE d1
    IN groups_copied(IF copied >= 1
                     THEN backup_file(dir, "all_users.yaml", U, time, BackupMaxCopies)
                     ELSE dir)

\* backup_rosetta_using_log; logOK: encoding and logging raised nothing
backup_rosetta_using_log(events, U, G, logOK) ==
    IF logOK THEN events \cup {[user_rosetta |-> U, group_rosetta |-> G]} ELSE events

(***************************************************************************)
(* The inputs of the calls.                                                *)
(***************************************************************************)
Uuid1 == Rep("1", 8) \o <<"-">> \o Rep("1", 4) \o <<"-">> \o Rep("1", 4)
         \o <<"-">> \o Rep("1", 4) \o <<"-">> \o Rep("a", 12)

Uuid2 == Rep("2", 8) \o <<"-">> \o Rep("2", 4) \o <<"-">> \o Rep("2", 4)
         \o <<"-">> \o Rep("2", 4) \o <<"-">> \o Rep("b", 12)

BadUuid == <<"i","n","v","a","l","i","d","-","u","u","i","d">>

Ezid1 == <<"u", "_", "1">>

Ezid2 == <<"U", ".", "1">>

Team1 == <<"t", "_", "1">>

Team2 == <<"t", "!", "2">>

LongName == Rep("a", UnicodeNameMaxLen)

Request(uuid, ezid, active_team, teams) ==
    [uuid |-> uuid, ezid |-> ezid, active_team |-> active_team, teams |-> teams]

ValidRequests ==
    { Request(PyStr(Uuid1), PyStr(Ezid1), PyStr(Team1), <<PyStr(Team1), PyStr(Team2)>>),
      Request(PyStr(Uuid1), PyStr(Ezid1), PyStr(Team2), <<PyStr(Team2)>>),
      Request(PyStr(Uuid1), PyStr(Ezid1), PyStr(Ezid1), <<>>),
      Request(PyStr(Uuid1), PyStr(Ezid1), PyStr(Team2), <<PyStr(Team1)>>),
      Request(PyStr(Uuid2), PyStr(Ezid1), PyStr(Ezid1), <<PyStr(Team1)>>),
      Request(PyStr(Uuid2), PyStr(Ezid2), PyStr(Team1), <<PyStr(Team1)>>),
      Request(PyStr(Uuid2), PyStr(Ezid2), PyStr(Ezid1), <<PyStr(Ezid1)>>) }

InvalidRequests ==
    { Request(PyInt, PyStr(Ezid1), PyStr(Team2), <<PyStr(Team1)>>),
      Request(PyStr(BadUuid), PyStr(Ezid1), PyStr(Team1), <<PyStr(Team1)>>),
      Request(PyStr(Uuid1), PyInt, PyStr(Team1), <<PyStr(Team1)>>),
      Request(PyStr(Uuid1), PyStr(LongName), PyStr(Team1), <<PyStr(Team1)>>),
      Request(PyStr(Uuid1), PyStr(Ezid1), PyInt, <<PyStr(Team1)>>),
      Request(PyStr(Uuid1), PyStr(Ezid1), PyStr(Team1), <<PyStr(Team1), PyInt>>) }

Requests == ValidRequests \cup InvalidRequests

\* [TeamName(team) for team in teams]
RECURSIVE CoerceTeams(_)
CoerceTeams(teams) ==
    LET coerced(t, r) ==
            IF ~t.ok THEN Fail(t.err)
            ELSE IF ~r.ok THEN r
            ELSE Ok(<<t.v>> \o r.v)
    IN IF teams = <<>> THEN Ok(<<>>)
       ELSE coerced(TeamName(Head(teams)), CoerceTeams(Tail(teams)))

NoInputs == [ok |-> FALSE, err |-> NoErr, uuid |-> <<>>, ezid |-> <<>>,
             active_team |-> <<>>, teams |-> <<>>]

\* a coercion that leaves the elements of teams as they were given
CoerceInputs_NoTeams(r) ==
    LET coerced(u, e, a) ==
            IF ~u.ok THEN [NoInputs EXCEPT !.err = u.err]
            ELSE IF ~e.ok THEN [NoInputs EXCEPT !.err = e.err]
            ELSE IF ~a.ok THEN [NoInputs EXCEPT !.err = a.err]
            ELSE [ok |-> TRUE, err |-> NoErr, uuid |-> u.v, ezid |-> e.v,
                  active_team |-> a.v,
                  teams |-> [i \in DOMAIN r.teams |->
                               IF r.teams[i].t = "str" THEN r.teams[i].s ELSE <<>>]]
    IN coerced(StsciUuid(r.uuid), StsciEzid(r.ezid), TeamName(r.active_team))

\* the first try block of get_spawn_info
CoerceInputs(r) ==
    LET coerced(u, e, a, t) ==
            IF ~u.ok THEN [NoInputs EXCEPT !.err = u.err]
            ELSE IF ~e.ok THEN [NoInputs EXCEPT !.err = e.err]
            ELSE IF ~a.ok THEN [NoInputs EXCEPT !.err = a.err]
            ELSE IF ~t.ok THEN [NoInputs EXCEPT !.err = t.err]
            ELSE [ok |-> TRUE, err |-> NoErr, uuid |-> u.v, ezid |-> e.v,
                  active_team |-> a.v, teams |-> t.v]
    IN coerced(StsciUuid(r.uuid), StsciEzid(r.ezid), TeamName(r.active_team),
               CoerceTeams(r.teams))

(***************************************************************************)
(* The state.                                                              *)
(*   users, groups   the content of all_users.yaml and all_groups.yaml     *)
(*   lock            the holder of uidgid.lock, or "free"                  *)
(*   pc, args, req, loc   per OS process: where its call is, the arguments *)
(*                   as given and as coerced, the locals username, uid and *)
(*                   the index of the next team                            *)
(*   rev             per OS process: the event a restore was called with   *)
(*   pending, out    the result the call has computed; the result the      *)
(*                   last completed call gave its caller                   *)
(*   last            the call of get_spawn_info that completed last: its   *)
(*                   arguments, its result, the tables as it left them     *)
(*   events          the backup events written to the log                  *)
(*   backup_dir      the files of the backup directory                     *)
(*   now             seconds since Epoch                                   *)
(*   codec           the bytes of two table files, the log event made of   *)
(*                   them, and the result of a decode(encode(b))           *)
(*   bfile           a file that backup_file copies: its text, the limit,  *)
(*                   the seconds of the calls made, the text last copied   *)
(*   background      background.py: the queue, the calls put into it and   *)
(*                   the calls executed, the worker task, the shutdown     *)
(*   lru_cache       client.py: the results lru_get_spawn_info has kept,   *)
(*                   and the call the client is making                     *)
(*   ANNOUNCEMENTS   hub/announcements.py: the store, dirty, the content   *)
(*                   of the savefile, and where the persist thread is      *)
(*   ncalls          per OS process: the calls of get_spawn_info it made   *)
(*   nops, nrestores counters that bound the model                         *)
(***************************************************************************)
VARIABLES users, groups, lock, pc, args, req, loc, pending, out, last, events,
          backup_dir, now, rev, ncalls, nops, nrestores, file_dict,
          tmp_files, name_in, name_out, bfile, codec,
          background, lru_cache, ANNOUNCEMENTS

vars == <<users, groups, lock, pc, args, req, loc, pending, out, last, events,
          backup_dir, now, rev, ncalls, nops, nrestores, file_dict,
          tmp_files, name_in, name_out, bfile, codec,
          background, lru_cache, ANNOUNCEMENTS>>

Procs == {"p1", "p2"}

\* no name function has been called
NoNames == [name |-> <<>>, existing |-> {}, kind |-> "user"]

NoName == [op |-> "none", r |-> Ok(<<>>)]

\* no file is being backed up on its own
NoBackups == [text |-> <<>>, max_copies |-> 0, made |-> {}, last |-> <<>>]

\* no bytes have been encoded
NoBlobs == [user_rosetta |-> <<>>, group_rosetta |-> <<>>]

NoFiles == [users |-> <<>>, groups |-> <<>>]

\* the keys of the log event that the restore reads
RosettaKeys == {"user_rosetta", "group_rosetta"}

\* the string given to locked_restore_rosetta_files: json: json.loads parses
\* it; keys: the keys of the object it holds
GivenEvent(json, keys, blobs) ==
    [json |-> json, keys |-> keys,
     user_rosetta |-> blobs.user_rosetta, group_rosetta |-> blobs.group_rosetta]

NoGiven == GivenEvent(TRUE, {}, NoBlobs)

NoCodec == [files |-> NoFiles, logged |-> FALSE, event |-> NoBlobs, saved |-> NoFiles,
            written |-> FALSE, restored |-> "no", given |-> NoGiven,
            rt |-> [done |-> FALSE, b |-> <<>>, r |-> Ok(<<>>)]]

\* the registry objects of two processes that are open on the same files
Instances == {"i1", "i2"}

NoRequest == Request(PyInt, PyInt, PyInt, <<>>)

\* background.py before startup: an empty queue and no worker task
NoBackground == [queue |-> <<>>, queued |-> <<>>, executed |-> <<>>, unfinished |-> 0,
                 task |-> "none", shutdown |-> "no", before |-> 0]

\* client.py: nothing is cached and no call is being made
NoCache == [cache |-> {}, pc |-> "idle", hit |-> FALSE, ncalls |-> 0]

\* an Announcements object with an empty store that was never saved
NoAnnouncements == [store |-> <<>>, dirty |-> FALSE, savefile |-> <<>>,
                    thread |-> "sleep", t_now |-> 0, nops |-> 0, passes |-> 0]

NoEvent == [user_rosetta |-> <<>>, group_rosetta |-> <<>>]

NoOutcome == [status |-> "none", err |-> NoErr, info |-> NoInfo]

Returned(info) == [status |-> "returned", err |-> NoErr, info |-> info]

Raised(err) == [status |-> "raised", err |-> err, info |-> NoInfo]

NoLocals == [username |-> <<>>, uid |-> 0, k |-> 1]

NoCall == [args |-> NoRequest, out |-> NoOutcome, users |-> <<>>, groups |-> <<>>]

\* the calls of get_spawn_info made so far
RECURSIVE CallsOf(_)
CallsOf(S) == IF S = {} THEN 0
              ELSE LET p == CHOOSE q \in S : TRUE IN ncalls[p] + CallsOf(S \ {p})

Init ==
    /\ users = EtcPasswd_Base
    /\ groups = EtcGroup_Base
    /\ lock = "free"
    /\ pc = [p \in Procs |-> "idle"]
    /\ args = [p \in Procs |-> NoRequest]
    /\ req = [p \in Procs |-> NoInputs]
    /\ rev = [p \in Procs |-> NoEvent]
    /\ loc = [p \in Procs |-> NoLocals]
    /\ pending = [p \in Procs |-> NoOutcome]
    /\ out = [p \in Procs |-> NoOutcome]
    /\ last = NoCall
    /\ events = {}
    /\ backup_dir = {}
    /\ now = 0
    /\ ncalls = [p \in Procs |-> 0]
    /\ nops = 0
    /\ nrestores = 0
    /\ file_dict = [i \in Instances |-> [users |-> EtcPasswd_Base, groups |-> EtcGroup_Base]]
    /\ tmp_files = {}
    /\ name_in = NoNames
    /\ name_out = NoName
    /\ bfile = NoBackups
    /\ codec = NoCodec
    /\ background = NoBackground
    /\ lru_cache = NoCache
    /\ ANNOUNCEMENTS = NoAnnouncements

\* a lock that is taken without waiting for its holder
LockAcquire_NoWait(p) == lock' = p

\* FileLock.acquire(blocking=True) of a lock made without a timeout: it
\* returns when no other process holds the lock file, and not before
LockAcquire(p) == lock = "free" /\ lock' = p

\* a release that an exception skips
LockRelease_OnSuccess(p) ==
    lock' = IF lock = p /\ pending[p].status = "returned" THEN "free" ELSE lock

LockRelease(p) == lock' = IF lock = p THEN "free" ELSE lock

\* get_spawn_info is called: the arguments are coerced; a failure is logged
\* and raised
Call(p) ==
    /\ pc[p] = "idle"
    /\ CallsOf(Procs) < MaxCalls
    /\ ncalls' = [ncalls EXCEPT ![p] = @ + 1]
    /\ \E r \in Requests :
         \E c \in {CoerceInputs(r)} :
           /\ args' = [args EXCEPT ![p] = r]
           /\ req' = [req EXCEPT ![p] = c]
           /\ IF c.ok
              THEN /\ pc' = [pc EXCEPT ![p] = "acquire"]
                   /\ out' = [out EXCEPT ![p] = NoOutcome]
              ELSE /\ pc' = pc
                   /\ out' = [out EXCEPT ![p] = Raised(c.err)]
    /\ loc' = [loc EXCEPT ![p] = NoLocals]
    /\ pending' = [pending EXCEPT ![p] = NoOutcome]
    /\ UNCHANGED <<users, groups, lock, last, events, backup_dir, now, bfile, codec, background, lru_cache, ANNOUNCEMENTS, name_in, name_out, tmp_files, file_dict, rev, nops,
                   nrestores>>

Acquire(p) ==
    /\ pc[p] = "acquire"
    /\ LockAcquire(p)
    /\ pc' = [pc EXCEPT ![p] = "user"]
    /\ UNCHANGED <<users, groups, args, req, loc, pending, out, last, events, backup_dir, now, bfile, codec, background, lru_cache, ANNOUNCEMENTS, name_in, name_out, tmp_files, file_dict,
                   rev, ncalls, nops, nrestores>>

\* a step of the locked region ended: with an exception, or on to pc next
StepDone(p, r, next) ==
    /\ users' = r.users
    /\ groups' = r.groups
    /\ IF r.ok
       THEN /\ pc' = [pc EXCEPT ![p] = next]
            /\ pending' = pending
       ELSE /\ pc' = [pc EXCEPT ![p] = "release"]
            /\ pending' = [pending EXCEPT ![p] = Raised(r.err)]

FetchUser(p) ==
    /\ pc[p] = "user"
    /\ \E dirOK \in BOOLEAN :
         \E r \in {create_or_fetch_user(users, groups, req[p].uuid, req[p].ezid, dirOK)} :
           /\ StepDone(p, r, IF req[p].teams = <<>> THEN "reconcile" ELSE "teams")
           /\ loc' = [loc EXCEPT ![p] = [username |-> r.username, uid |-> r.uid, k |-> 1]]
    /\ UNCHANGED <<lock, args, req, out, last, events, backup_dir, now, bfile, codec, background, lru_cache, ANNOUNCEMENTS, name_in, name_out, tmp_files, file_dict, rev, ncalls, nops, nrestores>>

FetchGroup(p) ==
    /\ pc[p] = "teams"
    /\ \E dirOK \in BOOLEAN :
         \E r \in {create_or_fetch_group(users, groups, loc[p].username,
                                         req[p].teams[loc[p].k], dirOK)} :
           /\ StepDone(p, r, IF loc[p].k = Len(req[p].teams) THEN "reconcile" ELSE "teams")
           /\ loc' = [loc EXCEPT ![p].k = @ + 1]
    /\ UNCHANGED <<lock, args, req, out, last, events, backup_dir, now, bfile, codec, background, lru_cache, ANNOUNCEMENTS, name_in, name_out, tmp_files, file_dict, rev, ncalls, nops, nrestores>>

Reconcile(p) ==
    /\ pc[p] = "reconcile"
    /\ \E r \in {remove_obsolete_group_memberships(users, groups, loc[p].username,
                                                   req[p].teams)} :
         StepDone(p, r, "resolve")
    /\ UNCHANGED <<lock, args, req, loc, out, last, events, backup_dir, now, bfile, codec, background, lru_cache, ANNOUNCEMENTS, name_in, name_out, tmp_files, file_dict, rev, ncalls, nops,
                   nrestores>>

\* a guard failure that puts the seeded tables back
Resolve_Undo(p) ==
    /\ pc[p] = "resolve"
    /\ \E r \in {resolve_active_team(users, groups, loc[p].username, loc[p].uid,
                                     req[p].ezid, req[p].active_team, req[p].teams)} :
         IF r.ok
         THEN /\ pending' = [pending EXCEPT ![p] = Returned(r.info)]
              /\ \E logOK \in BOOLEAN, copied \in 0..2 :
                   /\ events' = backup_rosetta_using_log(events, users, groups, logOK)
                   /\ backup_dir' = backup_rosetta_using_files(backup_dir, users, groups,
                                                               Epoch + now, copied)
              /\ UNCHANGED <<users, groups>>
         ELSE /\ pending' = [pending EXCEPT ![p] = Raised(r.err)]
              /\ users' = EtcPasswd_Base
              /\ groups' = EtcGroup_Base
              /\ UNCHANGED <<events, backup_dir>>
    /\ pc' = [pc EXCEPT ![p] = "release"]
    /\ UNCHANGED <<lock, args, req, loc, out, last, now, bfile, codec, background, lru_cache, ANNOUNCEMENTS, name_in, name_out, tmp_files, file_dict, rev, ncalls, nops, nrestores>>

\* a backup whose failure is raised to the caller of get_spawn_info
Resolve_BackupRaises(p) ==
    /\ pc[p] = "resolve"
    /\ \E r \in {resolve_active_team(users, groups, loc[p].username, loc[p].uid,
                                     req[p].ezid, req[p].active_team, req[p].teams)} :
         IF r.ok
         THEN \E logOK \in BOOLEAN, copied \in 0..2 :
                 /\ pending' = [pending EXCEPT ![p] =
                                  IF logOK /\ copied = 2 THEN Returned(r.info)
                                  ELSE Raised(Err("OSError", "backup failed"))]
                 /\ events' = backup_rosetta_using_log(events, users, groups, logOK)
                 /\ backup_dir' = backup_rosetta_using_files(backup_dir, users, groups,
                                                             Epoch + now, copied)
         ELSE /\ pending' = [pending EXCEPT ![p] = Raised(r.err)]
              /\ UNCHANGED <<events, backup_dir>>
    /\ pc' = [pc EXCEPT ![p] = "release"]
    /\ UNCHANGED <<users, groups, lock, args, req, loc, out, last, now, bfile, codec, background, lru_cache, ANNOUNCEMENTS, name_in, name_out, tmp_files, file_dict, rev, ncalls, nops,
                   nrestores>>

\* the active-team guard, the SpawnInfo and backup_rosetta_tables
Resolve(p) ==
    /\ pc[p] = "resolve"
    /\ \E r \in {resolve_active_team(users, groups, loc[p].username, loc[p].uid,
                                     req[p].ezid, req[p].active_team, req[p].teams)} :
         IF r.ok
         THEN /\ pending' = [pending EXCEPT ![p] = Returned(r.info)]
              /\ \E logOK \in BOOLEAN, copied \in 0..2 :
                   /\ events' = backup_rosetta_using_log(events, users, groups, logOK)
                   /\ backup_dir' = backup_rosetta_using_files(backup_dir, users, groups,
                                                               Epoch + now, copied)
         ELSE /\ pending' = [pending EXCEPT ![p] = Raised(r.err)]
              /\ UNCHANGED <<events, backup_dir>>
    /\ pc' = [pc EXCEPT ![p] = "release"]
    /\ UNCHANGED <<users, groups, lock, args, req, loc, out, last, now, bfile, codec, background, lru_cache, ANNOUNCEMENTS, name_in, name_out, tmp_files, file_dict, rev, ncalls, nops,
                   nrestores>>

\* the finally block: the lock is released and the call returns or raises
Release(p) ==
    /\ pc[p] = "release"
    /\ LockRelease(p)
    /\ out' = [out EXCEPT ![p] = pending[p]]
    /\ last' = [args |-> args[p], out |-> pending[p], users |-> users, groups |-> groups]
    /\ pc' = [pc EXCEPT ![p] = "idle"]
    /\ UNCHANGED <<users, groups, args, req, loc, pending, events, backup_dir, now, bfile, codec, background, lru_cache, ANNOUNCEMENTS, name_in, name_out, tmp_files, file_dict,
                   rev, ncalls, nops, nrestores>>

Next ==
    \E p \in Procs :
       \/ Call(p)
       \/ Acquire(p)
       \/ FetchUser(p)
       \/ FetchGroup(p)
       \/ Reconcile(p)
       \/ Resolve(p)
       \/ Release(p)

Spec == Init /\ [][Next]_vars

(***************************************************************************)
(* locked_restore_rosetta_files, called with a backup event the log holds. *)
(* decode_to_file writes one table file at a time.                         *)
(***************************************************************************)
RestoreCall(p) ==
    /\ pc[p] = "idle"
    /\ nrestores < MaxRestores
    /\ nrestores' = nrestores + 1
    /\ \E e \in events : rev' = [rev EXCEPT ![p] = e]
    /\ pc' = [pc EXCEPT ![p] = "r_acquire"]
    /\ UNCHANGED <<users, groups, lock, args, req, loc, pending, out, last, events, backup_dir,
                   now, bfile, codec, background, lru_cache, ANNOUNCEMENTS, name_in, name_out, tmp_files, file_dict, ncalls, nops>>

RestoreAcquire(p) ==
    /\ pc[p] = "r_acquire"
    /\ LockAcquire(p)
    /\ pc' = [pc EXCEPT ![p] = "r_users"]
    /\ UNCHANGED <<users, groups, args, req, loc, pending, out, last, events, backup_dir, now, bfile, codec, background, lru_cache, ANNOUNCEMENTS, name_in, name_out, tmp_files, file_dict,
                   rev, ncalls, nops, nrestores>>

RestoreUsers(p) ==
    /\ pc[p] = "r_users"
    /\ users' = rev[p].user_rosetta
    /\ pc' = [pc EXCEPT ![p] = "r_groups"]
    /\ UNCHANGED <<groups, lock, args, req, loc, pending, out, last, events, backup_dir, now, bfile, codec, background, lru_cache, ANNOUNCEMENTS, name_in, name_out, tmp_files, file_dict,
                   rev, ncalls, nops, nrestores>>

RestoreGroups(p) ==
    /\ pc[p] = "r_groups"
    /\ groups' = rev[p].group_rosetta
    /\ pc' = [pc EXCEPT ![p] = "r_release"]
    /\ UNCHANGED <<users, lock, args, req, loc, pending, out, last, events, backup_dir, now, bfile, codec, background, lru_cache, ANNOUNCEMENTS, name_in, name_out, tmp_files, file_dict,
                   rev, ncalls, nops, nrestores>>

\* the finally block and then the exit of the with block: release, twice
RestoreRelease(p) ==
    /\ pc[p] = "r_release"
    /\ LockRelease(p)
    /\ pc' = [pc EXCEPT ![p] = "idle"]
    /\ UNCHANGED <<users, groups, args, req, loc, pending, out, last, events, backup_dir, now, bfile, codec, background, lru_cache, ANNOUNCEMENTS, name_in, name_out, tmp_files, file_dict,
                   rev, ncalls, nops, nrestores>>

NextRestore ==
    \/ Next
    \/ \E p \in Procs :
          \/ RestoreCall(p)
          \/ RestoreAcquire(p)
          \/ RestoreUsers(p)
          \/ RestoreGroups(p)
          \/ RestoreRelease(p)

SpecRestore == Init /\ [][NextRestore]_vars

(***************************************************************************)
(* The registries used directly: Users.add_user, Users.delete_user,        *)
(* Groups.create_new_group and Groups.delete_group take no lock.  They are *)
(* called here between the calls of the service, never inside one.         *)
(***************************************************************************)
AdminName == <<"g", "a">>

\* a username given to add_user: the one to_valid_username makes of Ezid1
GivenName == <<"u", "-", "1">>

\* the arguments of the direct calls of add_user
AddUserArgs ==
    { [uuid |-> PyStr(Uuid2), ezid |-> PyStr(Ezid2), username |-> NoneStr,
       uid |-> NoneInt, gid |-> NoneInt, usertype |-> "individual"],
      [uuid |-> PyStr(ZeroUuid), ezid |-> PyStr(<<>>), username |-> Some(AdminName),
       uid |-> NoneInt, gid |-> Some(GroupGid_min), usertype |-> "group"],
      [uuid |-> PyStr(ZeroUuid), ezid |-> PyStr(<<>>), username |-> Some(GivenName),
       uid |-> NoneInt, gid |-> NoneInt, usertype |-> "individual"] }

\* the uuid of Uuid1 as a caller of add_user may write it: upper case, no
\* hyphens
RawUuid1 == Rep("1", 20) \o Rep("A", 12)

\* a direct call of add_user with a uuid that is not in normal form
RawUuidArgs ==
    { [uuid |-> PyStr(RawUuid1), ezid |-> PyStr(Ezid1), username |-> NoneStr,
       uid |-> NoneInt, gid |-> NoneInt, usertype |-> "individual"] }

RegistryIdle == (\A p \in Procs : pc[p] = "idle") /\ nops < MaxRegistryOps

RegAddUser ==
    /\ RegistryIdle
    /\ \E a \in AddUserArgs \cup RawUuidArgs :
         users' = add_user(users, a.uuid, a.ezid, a.username, a.uid, a.gid, a.usertype,
                           NoneSet).users
    /\ nops' = nops + 1
    /\ UNCHANGED <<groups, lock, pc, args, req, loc, pending, out, last, events, backup_dir, now, bfile, codec, background, lru_cache, ANNOUNCEMENTS, name_in, name_out, tmp_files, file_dict,
                   rev, ncalls, nrestores>>

RegCreateGroup ==
    /\ RegistryIdle
    /\ \E usertype \in {"individual", "group"} :
         groups' = create_new_group(groups, Team1, NoneStr, NoneInt, usertype,
                                    NoneSet).groups
    /\ nops' = nops + 1
    /\ UNCHANGED <<users, lock, pc, args, req, loc, pending, out, last, events, backup_dir, now, bfile, codec, background, lru_cache, ANNOUNCEMENTS, name_in, name_out, tmp_files, file_dict,
                   rev, ncalls, nrestores>>

RegDeleteUser ==
    /\ RegistryIdle
    /\ \E id \in {Uuid1, Uuid2} : users' = delete_user(users, id, "uuid")
    /\ nops' = nops + 1
    /\ UNCHANGED <<groups, lock, pc, args, req, loc, pending, out, last, events, backup_dir, now, bfile, codec, background, lru_cache, ANNOUNCEMENTS, name_in, name_out, tmp_files, file_dict,
                   rev, ncalls, nrestores>>

RegDeleteGroup ==
    /\ RegistryIdle
    /\ \E i \in DOMAIN groups : groups' = delete_group(groups, groups[i].groupname)
    /\ nops' = nops + 1
    /\ UNCHANGED <<users, lock, pc, args, req, loc, pending, out, last, events, backup_dir, now, bfile, codec, background, lru_cache, ANNOUNCEMENTS, name_in, name_out, tmp_files, file_dict,
                   rev, ncalls, nrestores>>

NextRegistry ==
    \/ Next
    \/ RegAddUser
    \/ RegCreateGroup
    \/ RegDeleteUser
    \/ RegDeleteGroup

SpecRegistry == Init /\ [][NextRegistry]_vars

(***************************************************************************)
(* Two registry objects open on the same files.  Each keeps the table it   *)
(* read or wrote last in file_dict; every operation starts with load_yaml, *)
(* and an operation that changes the table ends with write_yaml.           *)
(***************************************************************************)
MaxInstanceOps == 3

\* a load that keeps the table the object already holds
load_yaml_Cached(mem, file) == mem

\* TableIO.load_yaml: the object's table becomes what the file holds
load_yaml(mem, file) == file

InstanceIdle == (\A p \in Procs : pc[p] = "idle") /\ nops < MaxInstanceOps

\* Users.add_user: a failed call raises before it writes
InstAddUser(i) ==
    /\ InstanceIdle
    /\ \E a \in AddUserArgs :
         \E r \in {add_user(load_yaml(file_dict[i].users, users), a.uuid, a.ezid,
                            a.username, a.uid, a.gid, a.usertype, NoneSet)} :
            /\ users' = IF r.ok THEN r.users ELSE users
            /\ file_dict' = [file_dict EXCEPT ![i].users = r.users]
    /\ nops' = nops + 1
    /\ UNCHANGED <<groups, lock, pc, args, req, loc, pending, out, last, events, backup_dir, now, bfile, codec, background, lru_cache, ANNOUNCEMENTS, name_in, name_out, tmp_files,
                   rev, ncalls, nrestores>>

\* Users.delete_user: the table is written whether or not a record matched
InstDeleteUser(i) ==
    /\ InstanceIdle
    /\ \E id \in {Uuid1, Uuid2} :
         \E U \in {delete_user(load_yaml(file_dict[i].users, users), id, "uuid")} :
            /\ users' = U
            /\ file_dict' = [file_dict EXCEPT ![i].users = U]
    /\ nops' = nops + 1
    /\ UNCHANGED <<groups, lock, pc, args, req, loc, pending, out, last, events, backup_dir, now, bfile, codec, background, lru_cache, ANNOUNCEMENTS, name_in, name_out, tmp_files,
                   rev, ncalls, nrestores>>

\* Users.user_exist: load_all_uuids reads the file
InstUserExist(i) ==
    /\ InstanceIdle
    /\ file_dict' = [file_dict EXCEPT ![i].users = load_yaml(file_dict[i].users, users)]
    /\ nops' = nops + 1
    /\ UNCHANGED <<users, groups, lock, pc, args, req, loc, pending, out, last, events,
                   backup_dir, now, bfile, codec, background, lru_cache, ANNOUNCEMENTS, name_in, name_out, tmp_files, rev, ncalls, nrestores>>

\* Groups.create_new_group: a failed call raises before it writes
InstCreateGroup(i) ==
    /\ InstanceIdle
    /\ \E teamname \in {Team1, Team2}, usertype \in {"individual", "group"} :
         \E r \in {create_new_group(load_yaml(file_dict[i].groups, groups), teamname,
                                    NoneStr, NoneInt, usertype, NoneSet)} :
            /\ groups' = IF r.ok THEN r.groups ELSE groups
            /\ file_dict' = [file_dict EXCEPT ![i].groups = r.groups]
    /\ nops' = nops + 1
    /\ UNCHANGED <<users, lock, pc, args, req, loc, pending, out, last, events, backup_dir, now, bfile, codec, background, lru_cache, ANNOUNCEMENTS, name_in, name_out, tmp_files,
                   rev, ncalls, nrestores>>

\* Groups.delete_group: the table is written whether or not a record matched
InstDeleteGroup(i) ==
    /\ InstanceIdle
    /\ \E k \in DOMAIN groups :
         \E G \in {delete_group(load_yaml(file_dict[i].groups, groups),
                                groups[k].groupname)} :
            /\ groups' = G
            /\ file_dict' = [file_dict EXCEPT ![i].groups = G]
    /\ nops' = nops + 1
    /\ UNCHANGED <<users, lock, pc, args, req, loc, pending, out, last, events, backup_dir, now, bfile, codec, background, lru_cache, ANNOUNCEMENTS, name_in, name_out, tmp_files,
                   rev, ncalls, nrestores>>

\* Groups.add_user_to_group: a failed call raises before it writes
InstAddUserToGroup(i) ==
    /\ InstanceIdle
    /\ \E k \in DOMAIN groups :
         \E r \in {add_user_to_group(load_yaml(file_dict[i].groups, groups), GivenName,
                                     groups[k].groupname)} :
            /\ groups' = IF r.ok THEN r.groups ELSE groups
            /\ file_dict' = [file_dict EXCEPT ![i].groups = r.groups]
    /\ nops' = nops + 1
    /\ UNCHANGED <<users, lock, pc, args, req, loc, pending, out, last, events, backup_dir, now, bfile, codec, background, lru_cache, ANNOUNCEMENTS, name_in, name_out, tmp_files,
                   rev, ncalls, nrestores>>

\* Groups.group_exist: load_all_groupnames reads the file
InstGroupExist(i) ==
    /\ InstanceIdle
    /\ file_dict' = [file_dict EXCEPT ![i].groups = load_yaml(file_dict[i].groups, groups)]
    /\ nops' = nops + 1
    /\ UNCHANGED <<users, groups, lock, pc, args, req, loc, pending, out, last, events,
                   backup_dir, now, bfile, codec, background, lru_cache, ANNOUNCEMENTS, name_in, name_out, tmp_files, rev, ncalls, nrestores>>

\* string calls that write the table they hold back to the file
InstGroupStrings_Write(i) ==
    /\ InstanceIdle
    /\ \E every \in BOOLEAN :
         /\ groups' = to_string_file_dict(load_yaml(file_dict[i].groups, groups), every)
         /\ file_dict' = [file_dict EXCEPT ![i].groups =
                            to_string_file_dict(load_yaml(file_dict[i].groups, groups),
                                                every)]
    /\ nops' = nops + 1
    /\ UNCHANGED <<users, lock, pc, args, req, loc, pending, out, last, events, backup_dir,
                   now, bfile, codec, background, lru_cache, ANNOUNCEMENTS, name_in, name_out, tmp_files, rev, ncalls, nrestores>>

\* get_etc_group_string (every record) and get_active_group_string (the
\* active ones): load_yaml, then the member lists of the loaded table are
\* joined in place and the lines are built
InstGroupStrings(i) ==
    /\ InstanceIdle
    /\ \E every \in BOOLEAN :
         file_dict' = [file_dict EXCEPT ![i].groups =
                         to_string_file_dict(load_yaml(file_dict[i].groups, groups), every)]
    /\ nops' = nops + 1
    /\ UNCHANGED <<users, groups, lock, pc, args, req, loc, pending, out, last, events,
                   backup_dir, now, bfile, codec, background, lru_cache, ANNOUNCEMENTS, name_in, name_out, tmp_files, rev, ncalls, nrestores>>

NextInstances ==
    \/ \E i \in Instances : InstAddUser(i)
    \/ \E i \in Instances : InstDeleteUser(i)
    \/ \E i \in Instances : InstUserExist(i)
    \/ \E i \in Instances : InstCreateGroup(i)
    \/ \E i \in Instances : InstDeleteGroup(i)
    \/ \E i \in Instances : InstAddUserToGroup(i)
    \/ \E i \in Instances : InstGroupExist(i)
    \/ \E i \in Instances : InstGroupStrings(i)

SpecInstances == Init /\ [][NextInstances]_vars

(***************************************************************************)
(* The construction of UidGidApi by each process: Users, then Groups.  A   *)
(* table file that does not exist is the empty sequence.  The constructors *)
(* take no lock; every test of a file, write and removal is a step of its  *)
(* own.  A constructor that raises leaves its process without an object.   *)
(***************************************************************************)
Ctor ==
    [users  |-> [isfile |-> "u_isfile", check |-> "u_check", seed |-> "u_seed",
                 tmpcheck |-> "u_tmpcheck", tmpwrite |-> "u_tmpwrite",
                 tmpremove |-> "u_tmpremove", tmp |-> "tmp_users.yaml",
                 done |-> "g_isfile"],
     groups |-> [isfile |-> "g_isfile", check |-> "g_check", seed |-> "g_seed",
                 tmpcheck |-> "g_tmpcheck", tmpwrite |-> "g_tmpwrite",
                 tmpremove |-> "g_tmpremove", tmp |-> "tmp_group.yaml",
                 done |-> "idle"]]

\* no table file exists and no process has made its object
InitConstruct ==
    /\ users = <<>>
    /\ groups = <<>>
    /\ lock = "free"
    /\ pc = [p \in Procs |-> Ctor.users.isfile]
    /\ args = [p \in Procs |-> NoRequest]
    /\ req = [p \in Procs |-> NoInputs]
    /\ rev = [p \in Procs |-> NoEvent]
    /\ loc = [p \in Procs |-> NoLocals]
    /\ pending = [p \in Procs |-> NoOutcome]
    /\ out = [p \in Procs |-> NoOutcome]
    /\ last = NoCall
    /\ events = {}
    /\ backup_dir = {}
    /\ now = 0
    /\ ncalls = [p \in Procs |-> 0]
    /\ nops = 0
    /\ nrestores = 0
    /\ file_dict = [i \in Instances |-> [users |-> <<>>, groups |-> <<>>]]
    /\ tmp_files = {}
    /\ name_in = NoNames
    /\ name_out = NoName
    /\ bfile = NoBackups
    /\ codec = NoCodec
    /\ background = NoBackground
    /\ lru_cache = NoCache
    /\ ANNOUNCEMENTS = NoAnnouncements

\* Users.__init__, Groups.__init__: os.path.isfile(yaml_filename)
CtorIsFile(p, t) ==
    /\ pc[p] = Ctor[t].isfile
    /\ pc' = [pc EXCEPT ![p] = IF (IF t = "users" THEN users ELSE groups) # <<>>
                               THEN Ctor[t].tmpcheck ELSE Ctor[t].check]
    /\ UNCHANGED <<users, groups, lock, args, req, loc, pending, out, last, events,
                   backup_dir, now, bfile, codec, background, lru_cache, ANNOUNCEMENTS, name_in, name_out, rev, ncalls, nops, nrestores, file_dict, tmp_files>>

\* StsciUsers.__init__, StsciGroups.__init__ on the table file: FileExistsError
\* if the file exists by now
CtorCheck(p, t) ==
    /\ pc[p] = Ctor[t].check
    /\ pc' = [pc EXCEPT ![p] = IF (IF t = "users" THEN users ELSE groups) # <<>>
                               THEN "failed" ELSE Ctor[t].seed]
    /\ UNCHANGED <<users, groups, lock, args, req, loc, pending, out, last, events,
                   backup_dir, now, bfile, codec, background, lru_cache, ANNOUNCEMENTS, name_in, name_out, rev, ncalls, nops, nrestores, file_dict, tmp_files>>

\* from_string, add_stsci_attr_to_base, write_yaml: open(yaml_filename, "w")
\* and the dump of the base records
CtorSeed(p, t) ==
    /\ pc[p] = Ctor[t].seed
    /\ users' = IF t = "users" THEN EtcPasswd_Base ELSE users
    /\ groups' = IF t = "groups" THEN EtcGroup_Base ELSE groups
    /\ pc' = [pc EXCEPT ![p] = Ctor[t].done]
    /\ UNCHANGED <<lock, args, req, loc, pending, out, last, events, backup_dir, now, bfile, codec, background, lru_cache, ANNOUNCEMENTS, name_in, name_out, rev,
                   ncalls, nops, nrestores, file_dict, tmp_files>>

\* the table file exists: StsciUsers.__init__, StsciGroups.__init__ on the
\* tmp file, FileExistsError if that exists
CtorTmpCheck(p, t) ==
    /\ pc[p] = Ctor[t].tmpcheck
    /\ pc' = [pc EXCEPT ![p] = IF Ctor[t].tmp \in tmp_files
                               THEN "failed" ELSE Ctor[t].tmpwrite]
    /\ UNCHANGED <<users, groups, lock, args, req, loc, pending, out, last, events,
                   backup_dir, now, bfile, codec, background, lru_cache, ANNOUNCEMENTS, name_in, name_out, rev, ncalls, nops, nrestores, file_dict, tmp_files>>

\* write_yaml of the base records to the tmp file
CtorTmpWrite(p, t) ==
    /\ pc[p] = Ctor[t].tmpwrite
    /\ tmp_files' = tmp_files \cup {Ctor[t].tmp}
    /\ pc' = [pc EXCEPT ![p] = Ctor[t].tmpremove]
    /\ UNCHANGED <<users, groups, lock, args, req, loc, pending, out, last, events,
                   backup_dir, now, bfile, codec, background, lru_cache, ANNOUNCEMENTS, name_in, name_out, rev, ncalls, nops, nrestores, file_dict>>

\* os.remove of the tmp file, then load_yaml of the table file.  Users
\* removes without a test (FileNotFoundError), Groups only a file it finds
CtorTmpRemove(p, t) ==
    /\ pc[p] = Ctor[t].tmpremove
    /\ tmp_files' = tmp_files \ {Ctor[t].tmp}
    /\ pc' = [pc EXCEPT ![p] = IF t = "users" /\ Ctor[t].tmp \notin tmp_files
                               THEN "failed" ELSE Ctor[t].done]
    /\ UNCHANGED <<users, groups, lock, args, req, loc, pending, out, last, events,
                   backup_dir, now, bfile, codec, background, lru_cache, ANNOUNCEMENTS, name_in, name_out, rev, ncalls, nops, nrestores, file_dict>>

NextConstruct ==
    \/ \E p \in Procs, t \in {"users", "groups"} : CtorIsFile(p, t)
    \/ \E p \in Procs, t \in {"users", "groups"} : CtorCheck(p, t)
    \/ \E p \in Procs, t \in {"users", "groups"} : CtorSeed(p, t)
    \/ \E p \in Procs, t \in {"users", "groups"} : CtorTmpCheck(p, t)
    \/ \E p \in Procs, t \in {"users", "groups"} : CtorTmpWrite(p, t)
    \/ \E p \in Procs, t \in {"users", "groups"} : CtorTmpRemove(p, t)
    \/ Next

SpecConstruct == InitConstruct /\ [][NextConstruct]_vars

(***************************************************************************)
(* Groups.add_user_to_group and Groups.remove_user_from_group used         *)
(* directly, on a table with two team groups: one without members and one  *)
(* that holds as many members as add_user_to_group admits.                 *)
(***************************************************************************)
MaxMemberOps == 2

\* the member list of a full group
FullList == [k \in 1..GrouplistMax |-> <<"m">> \o DecStr(k)]

\* the names that are added and removed
MemberNames == {GivenName, AdminName, FullList[1]}

\* the table after create_new_group(Team1), create_new_group(Team2) and the
\* adds that filled the second group
FullGroups ==
    LET made(G) == [G EXCEPT ![Len(G)].grouplist = FullList]
        second(G) == made(create_new_group(G, Team2, NoneStr, NoneInt, "group",
                                           NoneSet).groups)
    IN second(create_new_group(EtcGroup_Base, Team1, NoneStr, NoneInt, "group",
                               NoneSet).groups)

InitMembers ==
    /\ users = EtcPasswd_Base
    /\ groups = FullGroups
    /\ lock = "free"
    /\ pc = [p \in Procs |-> "idle"]
    /\ args = [p \in Procs |-> NoRequest]
    /\ req = [p \in Procs |-> NoInputs]
    /\ rev = [p \in Procs |-> NoEvent]
    /\ loc = [p \in Procs |-> NoLocals]
    /\ pending = [p \in Procs |-> NoOutcome]
    /\ out = [p \in Procs |-> NoOutcome]
    /\ last = NoCall
    /\ events = {}
    /\ backup_dir = {}
    /\ now = 0
    /\ ncalls = [p \in Procs |-> 0]
    /\ nops = 0
    /\ nrestores = 0
    /\ file_dict = [i \in Instances |-> [users |-> EtcPasswd_Base, groups |-> EtcGroup_Base]]
    /\ tmp_files = {}
    /\ name_in = NoNames
    /\ name_out = NoName
    /\ bfile = NoBackups
    /\ codec = NoCodec
    /\ background = NoBackground
    /\ lru_cache = NoCache
    /\ ANNOUNCEMENTS = NoAnnouncements

\* the call ended: it returned None, or raised before write_yaml
MemberDone(p, r) ==
    /\ groups' = r.groups
    /\ out' = [out EXCEPT ![p] = IF r.ok THEN Returned(NoInfo) ELSE Raised(r.err)]
    /\ nops' = nops + 1
    /\ UNCHANGED <<users, lock, pc, args, req, loc, pending, last, events, backup_dir, now, bfile, codec, background, lru_cache, ANNOUNCEMENTS, name_in, name_out,
                   rev, ncalls, nrestores, file_dict, tmp_files>>

MemAdd(p) ==
    /\ nops < MaxMemberOps
    /\ \E u \in MemberNames, k \in DOMAIN groups :
          MemberDone(p, add_user_to_group(groups, u, groups[k].groupname))

MemRemove(p) ==
    /\ nops < MaxMemberOps
    /\ \E u \in MemberNames, k \in DOMAIN groups :
          MemberDone(p, remove_user_from_group(groups, u, groups[k].groupname))

NextMembers ==
    \/ \E p \in Procs : MemAdd(p)
    \/ \E p \in Procs : MemRemove(p)

SpecMembers == InitMembers /\ [][NextMembers]_vars

(***************************************************************************)
(* make_unique and to_valid_username called on their own: the name, the    *)
(* existing names and the kind are drawn from the sets below.              *)
(***************************************************************************)
\* the candidate with the tail -n, cut to leave room for the tail
Suffixed(c, n) ==
    Take(c, UbuntuName_MAX_LEN - 1 - Len(DecStr(n))) \o <<"-">> \o DecStr(n)

\* names as to_valid_username hands them to make_unique, and longer ones
NameCandidates ==
    { GivenName, <<"u">>, <<"g">>, Rep("a", UbuntuName_MAX_LEN - 1),
      Rep("a", UbuntuName_MAX_LEN), Rep("a", 27) \o <<"-", "1", "x", "x">>,
      Rep("a", UbuntuName_MAX_LEN + 8) }

\* names as the service receives them
LooseNames ==
    { Ezid1, Ezid2, Team1, Team2, Rep("_", 5), <<"1", "2">>, <<"-", "x">>,
      <<"D", "o", "h", "@", "x", ".", "e", "d", "u">>, <<"u", "_", "_", "!">>,
      Rep("A", UbuntuName_MAX_LEN + 8) }

TakenFor(c) ==
    { {}, {c}, {c, Suffixed(c, 1)}, {c, Suffixed(c, 1), Suffixed(c, 2)}, {Suffixed(c, 1)},
      {GivenName}, {GivenName, Suffixed(GivenName, 1)}, {<<"u">>, <<"g">>} }

NameInputs ==
    UNION { { [name |-> c, existing |-> E, kind |-> k] :
                E \in TakenFor(c), k \in {"user", "group"} } :
            c \in NameCandidates \cup LooseNames }

InitNames ==
    /\ users = EtcPasswd_Base
    /\ groups = EtcGroup_Base
    /\ lock = "free"
    /\ pc = [p \in Procs |-> "idle"]
    /\ args = [p \in Procs |-> NoRequest]
    /\ req = [p \in Procs |-> NoInputs]
    /\ rev = [p \in Procs |-> NoEvent]
    /\ loc = [p \in Procs |-> NoLocals]
    /\ pending = [p \in Procs |-> NoOutcome]
    /\ out = [p \in Procs |-> NoOutcome]
    /\ last = NoCall
    /\ events = {}
    /\ backup_dir = {}
    /\ now = 0
    /\ ncalls = [p \in Procs |-> 0]
    /\ nops = 0
    /\ nrestores = 0
    /\ file_dict = [i \in Instances |-> [users |-> EtcPasswd_Base, groups |-> EtcGroup_Base]]
    /\ tmp_files = {}
    /\ name_in \in NameInputs
    /\ name_out = NoName
    /\ bfile = NoBackups
    /\ codec = NoCodec
    /\ background = NoBackground
    /\ lru_cache = NoCache
    /\ ANNOUNCEMENTS = NoAnnouncements

CallMakeUnique ==
    /\ name_out.op = "none"
    /\ name_out' = [op |-> "make_unique",
                    r |-> make_unique(name_in.name, name_in.existing, UbuntuName_MAX_LEN)]
    /\ UNCHANGED <<users, groups, lock, pc, args, req, loc, pending, out, last, events,
                   backup_dir, now, bfile, codec, background, lru_cache, ANNOUNCEMENTS, rev, ncalls, nops, nrestores, file_dict, tmp_files,
                   name_in>>

CallToValidUsername ==
    /\ name_out.op = "none"
    /\ name_out' = [op |-> "to_valid_username",
                    r |-> to_valid_username(name_in.name, name_in.existing, name_in.kind)]
    /\ UNCHANGED <<users, groups, lock, pc, args, req, loc, pending, out, last, events,
                   backup_dir, now, bfile, codec, background, lru_cache, ANNOUNCEMENTS, rev, ncalls, nops, nrestores, file_dict, tmp_files,
                   name_in>>

NextNames ==
    \/ CallMakeUnique
    \/ CallToValidUsername

SpecNames == InitNames /\ [][NextNames]_vars

(***************************************************************************)
(* backup_file on its own: one file whose text changes between the calls,  *)
(* a clock that moves on between them, a limit that is the same in every   *)
(* call, and a directory that may already hold the copy of another file.   *)
(***************************************************************************)
MaxTicks == 3

BackupName == "input.txt"

BackupTexts == {<<"H", "i">>, <<"B", "y", "e">>}

BackupLimits == 0..2

OtherCopy == [name |-> "other.txt", ts |-> Epoch, text |-> <<"o">>]

InitBackup ==
    /\ users = EtcPasswd_Base
    /\ groups = EtcGroup_Base
    /\ lock = "free"
    /\ pc = [p \in Procs |-> "idle"]
    /\ args = [p \in Procs |-> NoRequest]
    /\ req = [p \in Procs |-> NoInputs]
    /\ rev = [p \in Procs |-> NoEvent]
    /\ loc = [p \in Procs |-> NoLocals]
    /\ pending = [p \in Procs |-> NoOutcome]
    /\ out = [p \in Procs |-> NoOutcome]
    /\ last = NoCall
    /\ events = {}
    /\ backup_dir \in {{}, {OtherCopy}}
    /\ now = 0
    /\ ncalls = [p \in Procs |-> 0]
    /\ nops = 0
    /\ nrestores = 0
    /\ file_dict = [i \in Instances |-> [users |-> EtcPasswd_Base, groups |-> EtcGroup_Base]]
    /\ tmp_files = {}
    /\ name_in = NoNames
    /\ name_out = NoName
    /\ \E t \in BackupTexts, m \in BackupLimits :
          bfile = [text |-> t, max_copies |-> m, made |-> {}, last |-> <<>>]
    /\ codec = NoCodec
    /\ background = NoBackground
    /\ lru_cache = NoCache
    /\ ANNOUNCEMENTS = NoAnnouncements

\* the file is written again
BkWrite ==
    /\ \E t \in BackupTexts \ {bfile.text} : bfile' = [bfile EXCEPT !.text = t]
    /\ UNCHANGED <<users, groups, lock, pc, args, req, loc, pending, out, last, events,
                   backup_dir, now, rev, ncalls, nops, nrestores, file_dict, tmp_files,
                   name_in, name_out, codec, background, lru_cache, ANNOUNCEMENTS>>

\* a second passes
BkTick ==
    /\ now < MaxTicks
    /\ now' = now + 1
    /\ UNCHANGED <<users, groups, lock, pc, args, req, loc, pending, out, last, events,
                   backup_dir, bfile, codec, background, lru_cache, ANNOUNCEMENTS, rev, ncalls, nops, nrestores, file_dict, tmp_files,
                   name_in, name_out>>

\* backup_file(file_path, where, max_copies)
BkBackup ==
    /\ backup_dir' = backup_file(backup_dir, BackupName, bfile.text, Epoch + now,
                                 bfile.max_copies)
    /\ bfile' = [bfile EXCEPT !.made = @ \cup {Epoch + now}, !.last = bfile.text]
    /\ UNCHANGED <<users, groups, lock, pc, args, req, loc, pending, out, last, events,
                   now, rev, ncalls, nops, nrestores, file_dict, tmp_files,
                   name_in, name_out, codec, background, lru_cache, ANNOUNCEMENTS>>

NextBackup ==
    \/ BkWrite
    \/ BkTick
    \/ BkBackup

SpecBackup == InitBackup /\ [][NextBackup]_vars

(***************************************************************************)
(* The log backup and the restore on the bytes of the two table files:     *)
(* backup_rosetta_using_log encodes both files into one event, the files   *)
(* are written again, and _unlocked_restore_rosetta_files decodes the      *)
(* event into the files.                                                   *)
(***************************************************************************)
MaxBytes == 3

ByteValues == {0, 97, 255}

\* byte strings with runs of four and more equal bytes
LongRuns == {Rep(97, 5), Rep(0, 4) \o <<255>>, <<0>> \o Rep(255, 6)}

ByteStrings == UNION {[1..k -> ByteValues] : k \in 0..MaxBytes} \cup LongRuns

GroupBytes == {<<>>, <<103, 58>>}

LaterBytes == {<<>>, <<120>>}

InitCodec ==
    /\ users = EtcPasswd_Base
    /\ groups = EtcGroup_Base
    /\ lock = "free"
    /\ pc = [p \in Procs |-> "idle"]
    /\ args = [p \in Procs |-> NoRequest]
    /\ req = [p \in Procs |-> NoInputs]
    /\ rev = [p \in Procs |-> NoEvent]
    /\ loc = [p \in Procs |-> NoLocals]
    /\ pending = [p \in Procs |-> NoOutcome]
    /\ out = [p \in Procs |-> NoOutcome]
    /\ last = NoCall
    /\ events = {}
    /\ backup_dir = {}
    /\ now = 0
    /\ ncalls = [p \in Procs |-> 0]
    /\ nops = 0
    /\ nrestores = 0
    /\ file_dict = [i \in Instances |-> [users |-> EtcPasswd_Base, groups |-> EtcGroup_Base]]
    /\ tmp_files = {}
    /\ name_in = NoNames
    /\ name_out = NoName
    /\ bfile = NoBackups
    /\ background = NoBackground
    /\ lru_cache = NoCache
    /\ ANNOUNCEMENTS = NoAnnouncements
    /\ \E u \in ByteStrings, g \in GroupBytes :
          codec = [NoCodec EXCEPT !.files = [users |-> u, groups |-> g]]

CodecFrame ==
    UNCHANGED <<users, groups, lock, pc, args, req, loc, pending, out, last, events,
                backup_dir, now, bfile, background, lru_cache, ANNOUNCEMENTS, rev, ncalls, nops, nrestores, file_dict, tmp_files,
                name_in, name_out>>

\* decode(encode(b)) for the bytes of one of the files
CodecRoundTrip ==
    /\ ~codec.rt.done
    /\ \E b \in {codec.files.users, codec.files.groups} :
          codec' = [codec EXCEPT !.rt = [done |-> TRUE, b |-> b, r |-> decode(encode(b))]]
    /\ CodecFrame

\* backup_rosetta_using_log: encode_from_file of both files, and the event
\* that log.info prints as JSON
CodecBackup ==
    /\ ~codec.logged
    /\ codec' = [codec EXCEPT !.logged = TRUE,
                              !.saved = codec.files,
                              !.event = [user_rosetta |-> encode(codec.files.users),
                                         group_rosetta |-> encode(codec.files.groups)]]
    /\ CodecFrame

\* a table file is written again after the event
CodecWrite ==
    /\ codec.logged
    /\ codec.restored = "no"
    /\ \E t \in {"users", "groups"}, b \in LaterBytes :
          /\ b # codec.files[t]
          /\ codec' = [codec EXCEPT !.files[t] = b, !.written = TRUE]
    /\ CodecFrame

\* the files after the two decode_to_file calls, of which the second is not
\* made if the first raises; ru, rg: the results of the calls
RestoredFiles(files, ru, rg) ==
    IF ~ru.ok THEN [files EXCEPT !.users = ru.v]
    ELSE [users |-> ru.v, groups |-> rg.v]

\* _unlocked_restore_rosetta_files with the event of the log
CodecRestore ==
    /\ codec.logged
    /\ codec.restored = "no"
    /\ \E ru \in {decode_to_file(codec.files.users, codec.event.user_rosetta)},
          rg \in {decode_to_file(codec.files.groups, codec.event.group_rosetta)} :
          codec' = [codec EXCEPT !.files = RestoredFiles(codec.files, ru, rg),
                                 !.restored = IF ru.ok /\ rg.ok THEN "yes" ELSE "failed"]
    /\ CodecFrame

NextCodec ==
    \/ CodecRoundTrip
    \/ CodecBackup
    \/ CodecWrite
    \/ CodecRestore

SpecCodec == InitCodec /\ [][NextCodec]_vars

(***************************************************************************)
(* locked_restore_rosetta_files with any string as its event: the event of *)
(* the log, a string that is no JSON, an object without one of the keys,   *)
(* an event one of whose blobs lost its last character or carries a        *)
(* changed byte.                                                           *)
(***************************************************************************)
\* a blob without its last character
ChopBlob(blob) == SubSeq(blob, 1, Len(blob) - 1)

\* the blob of a stream whose last byte, of the checksum, is another
FlipBlob(blob) ==
    LET flipped(z) == b64encode([z EXCEPT ![Len(z)] = (@ + 1) % 256])
    IN flipped(b64decode(blob).v)

DamagedBlobs(blob) == {ChopBlob(blob), FlipBlob(blob)}

\* the events that are given to the restore when the log holds the event e
GivenEvents(e) ==
    {GivenEvent(TRUE, RosettaKeys, e), GivenEvent(FALSE, {}, NoBlobs)}
       \cup {GivenEvent(TRUE, k, e) : k \in {{}, {"user_rosetta"}, {"group_rosetta"}}}
       \cup {GivenEvent(TRUE, RosettaKeys, [e EXCEPT !.user_rosetta = b]) :
                b \in DamagedBlobs(e.user_rosetta)}
       \cup {GivenEvent(TRUE, RosettaKeys, [e EXCEPT !.group_rosetta = b]) :
                b \in DamagedBlobs(e.group_rosetta)}

\* a restore that decodes both blobs before it opens a file
restore_rosetta_files_DecodeFirst(files, event) ==
    LET decoded(ru, rg) ==
            IF ru.ok /\ rg.ok
            THEN [ok |-> TRUE, err |-> NoErr, files |-> [users |-> ru.v, groups |-> rg.v]]
            ELSE [ok |-> FALSE, err |-> IF ru.ok THEN rg.err ELSE ru.err, files |-> files]
    IN IF ~event.json
       THEN [ok |-> FALSE, err |-> Err("ValueError", "JSONDecodeError"), files |-> files]
       ELSE IF ~(RosettaKeys \subseteq event.keys)
       THEN [ok |-> FALSE, err |-> Err("KeyError", "rosetta"), files |-> files]
       ELSE decoded(decode(event.user_rosetta), decode(event.group_rosetta))

\* _unlocked_restore_rosetta_files: json.loads, the two subscripts, and the
\* two decode_to_file calls, each of which opens its file before it decodes
restore_rosetta_files(files, event) ==
    LET written(ru, rg) ==
            [ok |-> ru.ok /\ rg.ok, err |-> IF ru.ok THEN rg.err ELSE ru.err,
             files |-> RestoredFiles(files, ru, rg)]
    IN IF ~event.json
       THEN [ok |-> FALSE, err |-> Err("ValueError", "JSONDecodeError"), files |-> files]
       ELSE IF "user_rosetta" \notin event.keys
       THEN [ok |-> FALSE, err |-> Err("KeyError", "user_rosetta"), files |-> files]
       ELSE IF "group_rosetta" \notin event.keys
       THEN [ok |-> FALSE, err |-> Err("KeyError", "group_rosetta"), files |-> files]
       ELSE written(decode_to_file(files.users, event.user_rosetta),
                    decode_to_file(files.groups, event.group_rosetta))

CodecRestoreEvent ==
    /\ codec.logged
    /\ codec.restored = "no"
    /\ \E event \in GivenEvents(codec.event) :
         \E r \in {restore_rosetta_files(codec.files, event)} :
            codec' = [codec EXCEPT !.files = r.files,
                                   !.given = event,
                                   !.restored = IF r.ok THEN "yes" ELSE "failed"]
    /\ CodecFrame

NextRestoreEvent ==
    \/ NextCodec
    \/ CodecRestoreEvent

SpecRestoreEvent == InitCodec /\ [][NextRestoreEvent]_vars

(***************************************************************************)
(* background.py: run_background puts a call into the asyncio queue, the   *)
(* worker task executes the calls, shutdown joins the queue and cancels    *)
(* the task.  A coroutine runs without interruption until it awaits        *)
(* something that is not ready: the worker awaits the queue only when it   *)
(* is empty, shutdown awaits the join only when calls are unfinished.      *)
(***************************************************************************)
MaxQueued == 3

\* the calls of the queue that one run of a worker without the except clause
\* executes: the first call that raises ends the task
RECURSIVE background_worker_NoExcept(_)
background_worker_NoExcept(queue) ==
    IF queue = <<>> THEN [done |-> <<>>, left |-> <<>>, alive |-> TRUE]
    ELSE IF Head(queue).raises
    THEN [done |-> <<Head(queue)>>, left |-> Tail(queue), alive |-> FALSE]
    ELSE (LET r == background_worker_NoExcept(Tail(queue))
          IN [r EXCEPT !.done = <<Head(queue)>> \o @])

\* background_worker from one await of an empty queue to the next: every call
\* of the queue is taken from its head and executed, what it raises is
\* printed, and task_done is called for it
RECURSIVE background_worker(_)
background_worker(queue) ==
    IF queue = <<>> THEN [done |-> <<>>, left |-> <<>>, alive |-> TRUE]
    ELSE (LET r == background_worker(Tail(queue))
          IN [r EXCEPT !.done = <<Head(queue)>> \o @])

BackgroundFrame ==
    UNCHANGED <<users, groups, lock, pc, args, req, loc, pending, out, last, events,
                backup_dir, now, bfile, codec, rev, ncalls, nops, nrestores, file_dict,
                tmp_files, name_in, name_out, lru_cache, ANNOUNCEMENTS>>

\* startup: asyncio.create_task(background_worker())
startup ==
    /\ background.task = "none"
    /\ background' = [background EXCEPT !.task = "ready"]
    /\ BackgroundFrame

\* run_background: put_nowait on a queue without a size limit, which wakes
\* the worker if it waits for a call; raises: the call raises an Exception
\* when it is executed
run_background ==
    /\ Len(background.queued) < MaxQueued
    /\ \E raises \in BOOLEAN :
         \E call \in {[n |-> Len(background.queued) + 1, raises |-> raises]} :
            background' = [background EXCEPT
                              !.queue = Append(@, call),
                              !.queued = Append(@, call),
                              !.unfinished = @ + 1,
                              !.task = IF @ = "waiting" THEN "ready" ELSE @]
    /\ BackgroundFrame

\* the worker task runs.  The task_done that ends the join of shutdown
\* schedules shutdown before a later put schedules the worker, so the worker
\* does not run between the end of the join and the cancel.
Worker ==
    /\ background.task = "ready"
    /\ background.shutdown # "joined"
    /\ \E r \in {background_worker(background.queue)} :
          background' = [background EXCEPT
                            !.queue = r.left,
                            !.executed = @ \o r.done,
                            !.unfinished = @ - Len(r.done),
                            !.task = IF r.alive THEN "waiting" ELSE "gone",
                            !.shutdown = IF @ = "joining"
                                            /\ background.unfinished = Len(r.done)
                                         THEN "joined" ELSE @]
    /\ BackgroundFrame

\* app.background_task.cancel()
Cancelled(task) == IF task = "gone" THEN "gone" ELSE "cancelled"

\* shutdown is called: join returns at once when no call is unfinished, and
\* the task is cancelled in the same run
shutdown ==
    /\ background.task # "none"
    /\ background.shutdown = "no"
    /\ background' = [background EXCEPT
                         !.before = Len(background.queued),
                         !.shutdown = IF background.unfinished = 0 THEN "done"
                                      ELSE "joining",
                         !.task = IF background.unfinished = 0 THEN Cancelled(@) ELSE @]
    /\ BackgroundFrame

\* shutdown after the join it had to wait for
ShutdownCancel ==
    /\ background.shutdown = "joined"
    /\ background' = [background EXCEPT !.shutdown = "done", !.task = Cancelled(@)]
    /\ BackgroundFrame

NextWorker ==
    \/ startup
    \/ run_background
    \/ Worker
    \/ shutdown
    \/ ShutdownCancel

SpecWorker == Init /\ [][NextWorker]_vars

\* the event loop runs every task that is ready, and the application that
\* queues calls is served
FairWorker ==
    SpecWorker /\ WF_vars(startup) /\ WF_vars(Worker) /\ WF_vars(ShutdownCancel)

(***************************************************************************)
(* client.py: cached_get_spawn_info in one client process.  A call whose   *)
(* arguments lru_get_spawn_info has kept a result for returns that result; *)
(* any other call is sent to the service, which runs get_spawn_info, and   *)
(* its SpawnInfo is kept.  A call that raises is not kept.                 *)
(***************************************************************************)
MaxClientCalls == 3

\* the service process that answers the requests of the client
Client == "p1"

ClientRequests ==
    { Request(PyStr(Uuid1), PyStr(Ezid1), PyStr(Team1), <<PyStr(Team1), PyStr(Team2)>>),
      Request(PyStr(Uuid1), PyStr(Ezid1), PyStr(Team1), <<PyStr(Team1)>>),
      Request(PyStr(Uuid1), PyStr(Ezid1), PyStr(Ezid1), <<>>) }

\* a client without the cache
lru_lookup_Miss(cache, key) == {}

\* functools.lru_cache: the results kept for the arguments key; fewer than
\* LRU_CACHE_SIZE argument tuples are used, so no result is dropped
lru_lookup(cache, key) == {e \in cache : e.args = key}

\* cached_get_spawn_info is called
ClientCall ==
    /\ lru_cache.pc = "idle"
    /\ pc[Client] = "idle"
    /\ lru_cache.ncalls < MaxClientCalls
    /\ \E r \in ClientRequests :
         \E c \in {CoerceInputs(r)}, kept \in {lru_lookup(lru_cache.cache, r)} :
           /\ args' = [args EXCEPT ![Client] = r]
           /\ req' = [req EXCEPT ![Client] = c]
           /\ IF kept # {}
              THEN /\ out' = [out EXCEPT ![Client] = Returned((CHOOSE e \in kept : TRUE).info)]
                   /\ pc' = pc
                   /\ lru_cache' = [lru_cache EXCEPT !.hit = TRUE, !.ncalls = @ + 1]
              ELSE /\ out' = [out EXCEPT ![Client] = IF c.ok THEN NoOutcome ELSE Raised(c.err)]
                   /\ pc' = [pc EXCEPT ![Client] = IF c.ok THEN "acquire" ELSE "idle"]
                   /\ lru_cache' = [lru_cache EXCEPT !.hit = FALSE, !.ncalls = @ + 1,
                                                     !.pc = IF c.ok THEN "service" ELSE "idle"]
    /\ loc' = [loc EXCEPT ![Client] = NoLocals]
    /\ pending' = [pending EXCEPT ![Client] = NoOutcome]
    /\ UNCHANGED <<users, groups, lock, last, events, backup_dir, now, bfile, codec,
                   background, ANNOUNCEMENTS, name_in, name_out, tmp_files, file_dict, rev,
                   ncalls, nops, nrestores>>

\* the response of the service arrives: a SpawnInfo is kept, and returned
ClientReturn ==
    /\ lru_cache.pc = "service"
    /\ pc[Client] = "idle"
    /\ lru_cache' = [lru_cache EXCEPT
                        !.pc = "idle",
                        !.cache = IF out[Client].status = "returned"
                                  THEN @ \cup {[args |-> args[Client],
                                                info |-> out[Client].info]}
                                  ELSE @]
    /\ UNCHANGED <<users, groups, lock, pc, args, req, loc, pending, out, last, events,
                   backup_dir, now, bfile, codec, background, ANNOUNCEMENTS, rev, ncalls,
                   nops, nrestores, file_dict, tmp_files, name_in, name_out>>

NextClient ==
    \/ ClientCall
    \/ ClientReturn
    \/ \E p \in Procs :
          \/ Acquire(p)
          \/ FetchUser(p)
          \/ FetchGroup(p)
          \/ Reconcile(p)
          \/ Resolve(p)
          \/ Release(p)

SpecClient == Init /\ [][NextClient]_vars

(***************************************************************************)
(* hub/announcements.py: the store of the announcement service, the        *)
(* request handlers that change it on the event loop, and persist_thread,  *)
(* which runs in a thread of the executor.  A message is a record of its   *)
(* five fields; a timestamp is the second and the microsecond of an ISO    *)
(* string, an expires spec the numbers of DAYS-HH:MM:SS.                   *)
(***************************************************************************)
MESSAGE_Q_LEN == 5

MaxHandlerCalls == 2

MaxClock == 2

MaxPasses == 2

AnnounceUsers == {"system", "u1"}

AnnounceTexts == {"a", "b"}

\* expires specs: 0-00:00:01 and 0-00:01:00
ExpiresSpecs == {<<0, 0, 0, 1>>, <<0, 0, 1, 0>>}

\* the patterns given as replace and as clear_regex
ClearPatterns == {".*", "a"}

Message(username, timestamp, expires, level, message) ==
    [username |-> username, timestamp |-> timestamp, expires |-> expires,
     level |-> level, message |-> message]

\* dt_from_iso: the part of the string after the "." is dropped
dt_from_iso(iso) == iso.sec

\* delta_from_spec, in seconds
delta_from_spec(spec) == ((spec[1] * 24 + spec[2]) * 60 + spec[3]) * 60 + spec[4]

\* the test of remove_expired, with t_now in seconds
IsExpired(msg, t_now) == dt_from_iso(msg.timestamp) + delta_from_spec(msg.expires) <= t_now

\* re.search(clear_regex, msg.message) for the patterns and the one-letter
\* texts of the model
re_search(pattern, text) == pattern = ".*" \/ pattern = text

\* Message.to_simpl: the dict of the five fields, as the list of its values
to_simpl(msg) == <<msg.username, msg.timestamp, msg.expires, msg.level, msg.message>>

\* Announcements.to_dict
to_dict(store) == [u \in DOMAIN store |-> [i \in DOMAIN store[u] |-> to_simpl(store[u][i])]]

\* Announcements.from_dict: Message(**value) for every value
from_dict(d) ==
    [u \in DOMAIN d |->
       [i \in DOMAIN d[u] |-> Message(d[u][i][1], d[u][i][2], d[u][i][3], d[u][i][4],
                                      d[u][i][5])]]

EmptyStore == [u \in {} |-> <<>>]

\* the inner loop of remove_expired with a copy of the list to iterate over
remove_expired_Copy(messages, i, t_now) ==
    SelectSeq(messages, LAMBDA m : ~IsExpired(m, t_now))

\* the inner loop of remove_expired, for msg in messages, from the index i
\* of the list iterator on: the iterator moves on by one after every
\* message, also when messages.remove(msg) has made the list shorter
RECURSIVE remove_expired(_, _, _)
remove_expired(messages, i, t_now) ==
    IF i > Len(messages) THEN messages
    ELSE IF IsExpired(messages[i], t_now)
    THEN remove_expired(RemoveFirst(messages, messages[i]), i + 1, t_now)
    ELSE remove_expired(messages, i + 1, t_now)

\* Announcements.clear for one user: a copy of the list is iterated over
clear_user(messages, clear_regex) ==
    SelectSeq(messages, LAMBDA m : ~re_search(clear_regex, m.message))

\* Announcements.clear: the store after it
clear(store, username, clear_regex) ==
    [u \in DOMAIN store |->
       IF username = "all" \/ u = username THEN clear_user(store[u], clear_regex)
       ELSE store[u]]

\* Announcements.rotate
rotate(messages, q_len) == IF Len(messages) > q_len THEN Tail(messages) ELSE messages

\* Announcements.put: the store after it
put(store, username, message) ==
    [u \in DOMAIN store \cup {username} |->
       IF u = username
       THEN rotate(Append(IF u \in DOMAIN store THEN store[u] ELSE <<>>, message),
                   MESSAGE_Q_LEN)
       ELSE store[u]]

\* the savefiles the service starts with: none, an empty store, five system
\* messages of which the first two expire after a second
SystemMessage(k, expires) ==
    to_simpl(Message("system", [sec |-> 0, micro |-> 0], expires, "info",
                     IF k % 2 = 1 THEN "a" ELSE "b"))

SaveFiles ==
    { [ok |-> FALSE, content |-> EmptyStore],
      [ok |-> TRUE, content |-> EmptyStore],
      [ok |-> TRUE,
       content |-> [u \in {"system"} |->
                      [k \in 1..MESSAGE_Q_LEN |->
                         SystemMessage(k, IF k < 3 THEN <<0, 0, 0, 1>>
                                          ELSE <<0, 0, 1, 0>>)]]] }

\* Announcements(savefile): load reads the file, and starts with an empty
\* store that is dirty if that fails
InitPersist ==
    /\ users = EtcPasswd_Base
    /\ groups = EtcGroup_Base
    /\ lock = "free"
    /\ pc = [p \in Procs |-> "idle"]
    /\ args = [p \in Procs |-> NoRequest]
    /\ req = [p \in Procs |-> NoInputs]
    /\ rev = [p \in Procs |-> NoEvent]
    /\ loc = [p \in Procs |-> NoLocals]
    /\ pending = [p \in Procs |-> NoOutcome]
    /\ out = [p \in Procs |-> NoOutcome]
    /\ last = NoCall
    /\ events = {}
    /\ backup_dir = {}
    /\ now = 0
    /\ ncalls = [p \in Procs |-> 0]
    /\ nops = 0
    /\ nrestores = 0
    /\ file_dict = [i \in Instances |-> [users |-> EtcPasswd_Base, groups |-> EtcGroup_Base]]
    /\ tmp_files = {}
    /\ name_in = NoNames
    /\ name_out = NoName
    /\ bfile = NoBackups
    /\ codec = NoCodec
    /\ background = NoBackground
    /\ lru_cache = NoCache
    /\ \E f \in SaveFiles :
          ANNOUNCEMENTS = [NoAnnouncements EXCEPT
                              !.store = IF f.ok THEN from_dict(f.content) ELSE EmptyStore,
                              !.dirty = ~f.ok,
                              !.savefile = f.content]

AnnounceFrame ==
    UNCHANGED <<users, groups, lock, pc, args, req, loc, pending, out, last, events,
                backup_dir, now, bfile, codec, rev, ncalls, nops, nrestores, file_dict,
                tmp_files, name_in, name_out, background, lru_cache>>

\* the clock advances by a second
ClockTick ==
    /\ ANNOUNCEMENTS.t_now < MaxClock
    /\ ANNOUNCEMENTS' = [ANNOUNCEMENTS EXCEPT !.t_now = @ + 1]
    /\ AnnounceFrame

\* AnnouncementRequestHandler.post: the message is made, with the time of
\* the call if the document has no timestamp; clear if the document has a
\* replace pattern; put
HandlerPost ==
    /\ ANNOUNCEMENTS.nops < MaxHandlerCalls
    /\ \E username \in AnnounceUsers, text \in AnnounceTexts, expires \in ExpiresSpecs,
          micro \in {0, 500000}, replace \in ClearPatterns \cup {"None"} :
         \E msg \in {Message(username, [sec |-> ANNOUNCEMENTS.t_now, micro |-> micro],
                             expires, "info", text)} :
           \E cleared \in {IF replace = "None" THEN ANNOUNCEMENTS.store
                           ELSE clear(ANNOUNCEMENTS.store, username, replace)} :
              ANNOUNCEMENTS' = [ANNOUNCEMENTS EXCEPT
                                   !.store = put(cleared, username, msg),
                                   !.dirty = TRUE,
                                   !.nops = @ + 1]
    /\ AnnounceFrame

\* AnnouncementRequestHandler.delete: clear(url_username); dirty is set when
\* a message is removed
HandlerDelete ==
    /\ ANNOUNCEMENTS.nops < MaxHandlerCalls
    /\ \E username \in AnnounceUsers \cup {"all"} :
         \E cleared \in {clear(ANNOUNCEMENTS.store, username, ".*")} :
            ANNOUNCEMENTS' = [ANNOUNCEMENTS EXCEPT
                                 !.store = cleared,
                                 !.dirty = @ \/ cleared # ANNOUNCEMENTS.store,
                                 !.nops = @ + 1]
    /\ AnnounceFrame

\* persist_thread after its sleep: remove_expired, and the test of dirty
PersistExpire ==
    /\ ANNOUNCEMENTS.thread = "sleep"
    /\ ANNOUNCEMENTS.passes < MaxPasses
    /\ \E kept \in {[u \in DOMAIN ANNOUNCEMENTS.store |->
                       remove_expired(ANNOUNCEMENTS.store[u], 1, ANNOUNCEMENTS.t_now)]} :
         \E dirty \in {ANNOUNCEMENTS.dirty \/ kept # ANNOUNCEMENTS.store} :
            ANNOUNCEMENTS' = [ANNOUNCEMENTS EXCEPT
                                 !.store = kept,
                                 !.dirty = dirty,
                                 !.passes = @ + 1,
                                 !.thread = IF dirty THEN "save" ELSE "sleep"]
    /\ AnnounceFrame

\* save: the file is opened and json.dump writes to_dict() into it
SaveDump ==
    /\ ANNOUNCEMENTS.thread = "save"
    /\ ANNOUNCEMENTS' = [ANNOUNCEMENTS EXCEPT
                            !.savefile = to_dict(ANNOUNCEMENTS.store),
                            !.thread = "saved"]
    /\ AnnounceFrame

\* save: self.dirty = False
SaveDone ==
    /\ ANNOUNCEMENTS.thread = "saved"
    /\ ANNOUNCEMENTS' = [ANNOUNCEMENTS EXCEPT !.dirty = FALSE, !.thread = "sleep"]
    /\ AnnounceFrame

NextPersist ==
    \/ ClockTick
    \/ HandlerPost
    \/ HandlerDelete
    \/ PersistExpire
    \/ SaveDump
    \/ SaveDone

SpecPersist == InitPersist /\ [][NextPersist]_vars

(***************************************************************************)
(* get_spawn_info with further arguments: an ezid whose system name is the *)
(* name of a team's admin user, a team that is a seeded system group, a    *)
(* call that is made again after it failed.  One call more is made than in *)
(* Spec.                                                                   *)
(***************************************************************************)
MaxWideCalls == 1

\* an ezid of which to_valid_username makes t-1-admin, the name of the admin
\* user of the group t-1 of Team1
AdminEzid == Team1 \o AdminSuffix

SudoName == <<"s", "u", "d", "o">>

WideRequests ==
    { Request(PyStr(Uuid1), PyStr(AdminEzid), PyStr(AdminEzid), <<>>),
      Request(PyStr(Uuid2), PyStr(Ezid1), PyStr(SudoName), <<PyStr(SudoName)>>),
      Request(PyStr(Uuid2), PyStr(Ezid1), PyStr(Ezid1), <<PyStr(Team1)>>) }

CallWide(p) ==
    /\ pc[p] = "idle"
    /\ CallsOf(Procs) < MaxCalls + MaxWideCalls
    /\ ncalls' = [ncalls EXCEPT ![p] = @ + 1]
    /\ \E r \in WideRequests :
         \E c \in {CoerceInputs(r)} :
           /\ args' = [args EXCEPT ![p] = r]
           /\ req' = [req EXCEPT ![p] = c]
           /\ IF c.ok
              THEN /\ pc' = [pc EXCEPT ![p] = "acquire"]
                   /\ out' = [out EXCEPT ![p] = NoOutcome]
              ELSE /\ pc' = pc
                   /\ out' = [out EXCEPT ![p] = Raised(c.err)]
    /\ loc' = [loc EXCEPT ![p] = NoLocals]
    /\ pending' = [pending EXCEPT ![p] = NoOutcome]
    /\ UNCHANGED <<users, groups, lock, last, events, backup_dir, now, bfile, codec, background, lru_cache, ANNOUNCEMENTS, name_in,
                   name_out, tmp_files, file_dict, rev, nops, nrestores>>

NextWide ==
    \/ Next
    \/ \E p \in Procs : CallWide(p)

SpecWide == Init /\ [][NextWide]_vars

(***************************************************************************)
(* The calls of the service with the scheduling the code has: a process    *)
(* that waits in FileLock.acquire polls the lock file and takes it once it *)
(* stays free.  Nothing makes the holder of the lock take its next step:   *)
(* its reads and writes of the shared file system may block.               *)
(***************************************************************************)
FairSpec == Spec /\ \A p \in Procs : WF_vars(Acquire(p))

(***************************************************************************)
(* The properties.                                                         *)
(***************************************************************************)
\* the steps between the acquisition of the lock and its release
LockedRegion == {"user", "teams", "reconcile", "resolve", "release",
                 "r_users", "r_groups", "r_release"}

\* C1: at any time at most one process is inside the locked region of
\* get_spawn_info or locked_restore_rosetta_files, and it is the holder of
\* the lock, so the reads and writes of the tables made by one call never
\* interleave with those of another.
C1_MutualExclusion ==
    \A p \in Procs :
       pc[p] \in LockedRegion =>
          /\ lock = p
          /\ \A q \in Procs : pc[q] \in LockedRegion => q = p

\* a call has written the tables and holds the lock while a restore waits
C1_Witness ==
    \E p, q \in Procs :
       /\ pc[p] = "reconcile"
       /\ pc[q] = "r_acquire"
       /\ users # rev[q].user_rosetta

\* the records of the groups that list the user
GroupsOf(username) == {i \in DOMAIN groups : InGrouplist(username, groups[i])}

\* C2: when get_spawn_info is about to return a SpawnInfo, the groups whose
\* member list contains the username are exactly the groups of the listed
\* teams and the personal group of the user, which is among them.
C2_Reconciled ==
    \A p \in Procs :
       (pc[p] = "release" /\ pending[p].status = "returned") =>
          LET personal == {i \in DOMAIN groups :
                             /\ groups[i].groupname = loc[p].username
                             /\ groups[i].gid = loc[p].uid}
              listed == {i \in DOMAIN groups : groups[i].teamname \in Range(req[p].teams)}
          IN /\ GroupsOf(loc[p].username) = listed \cup personal
             /\ personal # {}

\* a call returns for a user who was removed from one team and kept in another
C2_Witness ==
    \E p \in Procs :
       /\ pc[p] = "release"
       /\ pending[p].status = "returned"
       /\ Cardinality({i \in DOMAIN users : users[i].usertype = "individual"}) = 1
       /\ \E i, j \in DOMAIN groups :
             /\ groups[i].usertype = "group"
             /\ groups[j].usertype = "group"
             /\ i \notin GroupsOf(loc[p].username)
             /\ j \in GroupsOf(loc[p].username)

UniqueUids == \A i, j \in DOMAIN users : users[i].uid = users[j].uid => i = j

UniqueGids == \A i, j \in DOMAIN groups : groups[i].gid = groups[j].gid => i = j

\* a record of an individual user is added with a uid above those given before
IssuedUidsIncrease ==
    (Len(users') > Len(users) /\ users'[Len(users')].usertype = "individual") =>
       \A i \in DOMAIN users :
          users[i].usertype = "individual" => users'[Len(users')].uid > users[i].uid

\* C3: over any sequence of get_spawn_info, add_user, create_new_group,
\* delete_user and delete_group calls no uid is held by two user records, no
\* gid by two group records, and the uids given to the individual users
\* created one after the other are strictly increasing.
C3_UniqueIds == [](UniqueUids /\ UniqueGids) /\ [][IssuedUidsIncrease]_vars

\* C4: in every state of the two tables, the one a raising call leaves
\* included, every user record of type individual has exactly one group
\* record with gid equal to its uid and groupname equal to its username.
C4_PersonalGroup ==
    \A i \in DOMAIN users :
       users[i].usertype = "individual" =>
          Cardinality({j \in DOMAIN groups :
                         /\ groups[j].gid = users[i].uid
                         /\ groups[j].groupname = users[i].username}) = 1

C6_Idempotent ==
    \A p \in Procs :
       (pc[p] = "release" /\ last.args = args[p] /\ last.out.status = "returned") =>
          /\ pending[p] = last.out
          /\ Len(users) = Len(last.users)
          /\ Len(groups) = Len(last.groups)
          /\ \A i \in DOMAIN groups : Len(groups[i].grouplist) = Len(last.groups[i].grouplist)

\* the second of two calls with the same arguments and a team is about to return
C6_Witness ==
    \E p \in Procs :
       /\ pc[p] = "release"
       /\ last.args = args[p]
       /\ last.out.status = "returned"
       /\ Len(req[p].teams) = 2
       /\ pending[p].status = "returned"

\* C7: a call of get_spawn_info that acquired the lock has released it when
\* it returns or raises, whichever step failed: with no call inside the
\* locked region the lock is free, so that a later call can acquire it.
C7_LockReleased == (\A p \in Procs : pc[p] \notin LockedRegion) => lock = "free"

\* a call raised from inside the locked region, and the lock is free
C7_Witness ==
    /\ \A p \in Procs : pc[p] \notin LockedRegion
    /\ \E p \in Procs : out[p].status = "raised" /\ out[p].err.type = "RuntimeError"
    /\ lock = "free"

\* C8: a call of get_spawn_info does not wait forever for a lock that its
\* holder does not release: it does not stay for ever at the acquisition
\* with the lock held by another.
C8_BoundedWait == \A p \in Procs : []<>(~(pc[p] = "acquire" /\ lock # "free"))

\* what the inputs of a call are, before any coercion
NonString(r) ==
    \/ r.uuid.t # "str"
    \/ r.ezid.t # "str"
    \/ r.active_team.t # "str"
    \/ \E i \in DOMAIN r.teams : r.teams[i].t # "str"

TooLong(x) == x.t = "str" /\ Len(x.s) >= UnicodeNameMaxLen

Malformed(r) ==
    \/ /\ r.uuid.t = "str"
       /\ ~IsPlain32(LowerStr(Strip(r.uuid.s)))
       /\ ~IsHyphenatedHex(LowerStr(Strip(r.uuid.s)))
    \/ TooLong(r.ezid)
    \/ TooLong(r.active_team)
    \/ \E i \in DOMAIN r.teams : TooLong(r.teams[i])

\* a call made by p with an input that fails coercion raises at once
CoercionFailureRaises(p) ==
    (ncalls'[p] = ncalls[p] + 1 /\ (NonString(args'[p]) \/ Malformed(args'[p]))) =>
       /\ out'[p].status = "raised"
       /\ out'[p].err.type \in {"TypeError", "ValueError"}
       /\ out'[p].err.type = "TypeError" => NonString(args'[p])
       /\ out'[p].err.type = "ValueError" => Malformed(args'[p])
       /\ pc'[p] = "idle"
       /\ UNCHANGED <<users, groups, lock, events, backup_dir>>

\* C9: a call of get_spawn_info with an input that fails coercion (TypeError
\* for a uuid, ezid or team name that is no string, ValueError for a
\* malformed uuid or a name of 128 characters or more) raises before the lock
\* is acquired and leaves the user table, the group table and the backups
\* as they were.
C9_CoercionFailure == [][\A p \in Procs : CoercionFailureRaises(p)]_vars

\* a call failed coercion when the tables held users and a backup had been made
C9_Witness ==
    \E p \in Procs :
       /\ pc[p] = "idle"
       /\ out[p].status = "raised"
       /\ ~req[p].ok
       /\ out[p].err.type = "ValueError"
       /\ Len(users) > Len(EtcPasswd_Base)
       /\ events # {}

\* the condition of the active-team guard, on the arguments r
NotInTeams(r) == ~InList(r.active_team, r.teams) /\ r.active_team # r.ezid

GuardError(e) == e.type = "ValueError" /\ e.what = ActiveTeamError(<<>>, <<>>).what

\* C10, as the claim states it: every completed call whose active_team is
\* neither an element of teams nor equal to ezid has raised the ValueError
\* that names the active team and the team list.
C10_AlwaysValueError ==
    \A p \in Procs :
       (pc[p] = "idle" /\ out[p].status # "none" /\ NotInTeams(args[p])) =>
          /\ out[p].status = "raised"
          /\ GuardError(out[p].err)

\* a call whose steps before the guard raised nothing raises at the guard
GuardRaises(p) ==
    (pc[p] = "resolve" /\ pc'[p] = "release" /\ NotInTeams(req[p])) =>
       pending'[p] = Raised(ActiveTeamError(req[p].active_team, req[p].teams))

\* C10, amended: a call whose coerced active_team is neither an element of
\* the coerced teams nor equal to the coerced ezid returns no SpawnInfo; it
\* raises the ValueError that names the active team and the team list when
\* the inputs coerce and no earlier step of the call has raised.
C10_Guard ==
    /\ [](\A p \in Procs :
            (req[p].ok /\ NotInTeams(req[p])) =>
               pending[p].status # "returned" /\ out[p].status # "returned")
    /\ [][\A p \in Procs : GuardRaises(p)]_vars

\* a call is about to raise the ValueError of the guard
C10_Witness ==
    \E p \in Procs :
       /\ pc[p] = "release"
       /\ NotInTeams(req[p])
       /\ pending[p] = Raised(ActiveTeamError(req[p].active_team, req[p].teams))

\* the call of p is about to raise the ValueError of the active-team guard
GuardFailed(p) ==
    /\ pc[p] = "release"
    /\ pending[p] = Raised(ActiveTeamError(req[p].active_team, req[p].teams))

\* what the steps of a successful call leave in the tables for its uuid, ezid
\* and teams: the user record and its personal group, a group and an admin
\* user for every listed team, and the user in the member lists of exactly
\* the listed teams and the personal group
PersistedAsOnSuccess(p) ==
    /\ \E i \in DOMAIN users :
          /\ users[i].uuid = req[p].uuid
          /\ users[i].username = loc[p].username
          /\ users[i].uid = loc[p].uid
    /\ \E j \in DOMAIN groups :
          groups[j].groupname = loc[p].username /\ groups[j].gid = loc[p].uid
    /\ \A k \in DOMAIN req[p].teams :
          \E j \in DOMAIN groups :
             /\ groups[j].teamname = req[p].teams[k]
             /\ InGrouplist(loc[p].username, groups[j])
             /\ groups[j].gid >= GroupGid_min =>
                   \E i \in DOMAIN users :
                      users[i].uid = groups[j].gid /\ users[i].usertype = "group"
    /\ GroupsOf(loc[p].username) =
          {j \in DOMAIN groups : groups[j].teamname \in Range(req[p].teams)}
             \cup {j \in DOMAIN groups : groups[j].groupname = loc[p].username}

\* the guard and the finally block leave both tables as the steps before left them
GuardKeepsTables(p) ==
    ((pc[p] = "resolve" \/ GuardFailed(p)) /\ pc'[p] # pc[p]) =>
       UNCHANGED <<users, groups>>

\* C11: when get_spawn_info fails the active-team guard, what the call did
\* before stays in the tables: the user, the groups and admin users of the
\* listed teams and the reconciled memberships are there as a successful call
\* with the same uuid, ezid and teams leaves them, and neither the guard nor
\* the release of the lock changes a table.
C11_GuardKeepsWork ==
    /\ [](\A p \in Procs : GuardFailed(p) => PersistedAsOnSuccess(p))
    /\ [][\A p \in Procs : GuardKeepsTables(p)]_vars

\* a call that created a team and took its user out of another one is about
\* to raise at the guard
C11_Witness ==
    \E p \in Procs :
       /\ GuardFailed(p)
       /\ Len(req[p].teams) = 1
       /\ \E j \in DOMAIN groups :
             /\ groups[j].teamname = req[p].active_team
             /\ ~InGrouplist(loc[p].username, groups[j])
             /\ groups[j].grouplist # <<>>
       /\ last.out.status = "returned"

\* tables in which every id of a range is taken: the seeded records and one
\* record for every uid of UserUid, for every gid of GroupGid
ExhaustedUsers ==
    EtcPasswd_Base \o [i \in 1..(UserUid_max - UserUid_min) |->
                         [BaseUser(<<"u">>, UserUid_min + i, UserUid_min + i)
                            EXCEPT !.usertype = "individual"]]

ExhaustedGroups ==
    EtcGroup_Base \o [i \in 1..(GroupGid_max - GroupGid_min + 1) |->
                        BaseGroup(<<"g">>, GroupGid_min + i - 1)]

\* the creation of a user and of a team on the exhausted tables
AddUserExhausted ==
    add_user(ExhaustedUsers, PyStr(Uuid1), PyStr(Ezid1), NoneStr, NoneInt, NoneInt,
             "individual", NoneSet)

CreateGroupExhausted ==
    create_new_group(ExhaustedGroups, Team1, NoneStr, NoneInt, "group", NoneSet)

\* with no free id left the creation raises ValueError and adds no record
ExhaustionFails ==
    /\ ~AddUserExhausted.ok
    /\ AddUserExhausted.err.type = "ValueError"
    /\ AddUserExhausted.users = ExhaustedUsers
    /\ ~CreateGroupExhausted.ok
    /\ CreateGroupExhausted.err.type = "ValueError"
    /\ CreateGroupExhausted.groups = ExhaustedGroups

\* the groups that were created for a team: not seeded, of usertype group
TeamGroups == {j \in DOMAIN groups : j > Len(EtcGroup_Base) /\ groups[j].usertype = "group"}

\* C12: after any sequence of get_spawn_info calls every user record of type
\* individual has 1000 <= uid <= 59999 and gid = uid, and every team group has
\* 60000 <= gid <= 65533 and an admin user whose uid is that gid; on a table
\* where a range has no free id left the creation fails with a ValueError,
\* adds no record and issues no id outside the range.
C12_Ranges ==
    /\ \A i \in DOMAIN users :
          users[i].usertype = "individual" =>
             /\ users[i].uid \in UserUid_min..UserUid_max
             /\ users[i].gid = users[i].uid
    /\ \A j \in TeamGroups :
          /\ groups[j].gid \in GroupGid_min..GroupGid_max
          /\ \E i \in DOMAIN users :
                /\ users[i].usertype = "group"
                /\ users[i].username = groups[j].groupname \o AdminSuffix
                /\ users[i].uid = groups[j].gid
    /\ ExhaustionFails

\* two individual users and two teams have been created by the calls
C12_Witness ==
    /\ Cardinality({i \in DOMAIN users : users[i].usertype = "individual"}) = 2
    /\ Cardinality(TeamGroups) = 2
    /\ \A p \in Procs : pc[p] = "idle"

UniqueUsernames ==
    \A i, j \in DOMAIN users : users[i].username = users[j].username => i = j

UniqueGroupnames ==
    \A i, j \in DOMAIN groups : groups[i].groupname = groups[j].groupname => i = j

UniqueTeamnames ==
    \A i, j \in DOMAIN groups : groups[i].teamname = groups[j].teamname => i = j

\* C13: in every reachable state no two user records, active or deactivated,
\* have the same username, and no two group records have the same groupname
\* or the same teamname.
C13_UniqueNames == UniqueUsernames /\ UniqueGroupnames /\ UniqueTeamnames

\* the system name an ezid squashes to when no name is taken
SquashedName(ezid) == to_valid_username(ezid, {}, "user").v

\* the users registered so far whose ezid squashes to the name ezid squashes to
SquashedAlike(ezid) ==
    {i \in DOMAIN users :
       users[i].usertype = "individual" /\ SquashedName(users[i].ezid) = SquashedName(ezid)}

\* name, name-1, name-2, ...: the name of the registration that follows n others
SuffixedName(name, n) == IF n = 0 THEN name ELSE name \o <<"-">> \o DecStr(n)

\* the step that registers a new uuid adds the user under the suffixed name,
\* and raises nothing unless the home directory cannot be made
RegistersSquashed(p) ==
    (pc[p] = "user" /\ pc'[p] # "user" /\ ~user_exist(users, PyStr(req[p].uuid))) =>
       /\ Len(users') = Len(users) + 1
       /\ users'[Len(users')].uuid = req[p].uuid
       /\ users'[Len(users')].username =
             SuffixedName(SquashedName(req[p].ezid),
                          Cardinality(SquashedAlike(req[p].ezid)))
       /\ pc'[p] = "release" => pending'[p] = Raised(DirError)

\* C14: when get_spawn_info registers distinct uuids whose ezids squash to the
\* same system name, every registration succeeds and the usernames issued are
\* name for the first, name-1 for the second, name-2 for the third, and so on.
C14_SquashedNames == [][\A p \in Procs : RegistersSquashed(p)]_vars

\* id is the smallest id at or above min_id that is not in used
SmallestFree(id, min_id, used) ==
    /\ id >= min_id
    /\ id \notin used
    /\ \A k \in min_id..(id - 1) : k \in used

\* the min_id of the uid range, and of the gid range, of a usertype
MinIdOf(usertype) == IF usertype = "individual" THEN UserUid_min ELSE GroupGid_min

\* a step in which get_new_uid or get_new_gid chose the id of a new record:
\* every user but the admin user of a new team, every group but the personal
\* group of a new user
IssuesSmallest ==
    /\ (Len(users') > Len(users) /\ \A p \in Procs : pc[p] # "teams") =>
          SmallestFree(users'[Len(users')].uid, MinIdOf(users'[Len(users')].usertype),
                       all_uids(users))
    /\ (Len(groups') > Len(groups) /\ \A p \in Procs : pc[p] # "user") =>
          SmallestFree(groups'[Len(groups')].gid, MinIdOf(groups'[Len(groups')].usertype),
                       all_gids(groups))

\* the first call on the seeded tables has not raised so far
FirstCall(p) ==
    /\ last = NoCall
    /\ nops = 0
    /\ pc[p] \in {"teams", "reconcile", "resolve", "release"}
    /\ pending[p].status # "raised"

\* the ids of the first call: 1001 for the user and the personal group,
\* 60000, 60001, ... for the teams in the order they are listed
FirstCallIds(p) ==
    /\ loc[p].uid = UserUid_min + 1
    /\ \E i \in DOMAIN users :
          /\ users[i].uuid = req[p].uuid
          /\ users[i].uid = UserUid_min + 1
          /\ users[i].gid = UserUid_min + 1
    /\ \E j \in DOMAIN groups :
          groups[j].groupname = loc[p].username /\ groups[j].gid = UserUid_min + 1
    /\ \A k \in 1..(IF pc[p] = "teams" THEN loc[p].k - 1 ELSE Len(req[p].teams)) :
          \E j \in DOMAIN groups :
             groups[j].teamname = req[p].teams[k] /\ groups[j].gid = GroupGid_min + k - 1

\* C15: get_new_uid and get_new_gid return the smallest id at or above the
\* min_id of the range that no record of the table uses; on the seeded tables,
\* where jovyan holds uid 1000, the first new user gets uid 1001 and personal
\* gid 1001 and the new teams of the request get the gids 60000, 60001, ... in
\* the order they are listed.
C15_SmallestFreeId ==
    /\ [][IssuesSmallest]_vars
    /\ [](\A p \in Procs : FirstCall(p) => FirstCallIds(p))

\* the first call on the seeded tables is about to return for two new teams
C15_Witness ==
    \E p \in Procs :
       /\ FirstCall(p)
       /\ pc[p] = "release"
       /\ pending[p].status = "returned"
       /\ Len(req[p].teams) = 2
       /\ pending[p].info.all_user_gids = <<UserUid_min + 1, GroupGid_min, GroupGid_min + 1>>

\* C16: a successful get_spawn_info returns uid and username of the user
\* record of the uuid, gid and groupname of the group whose teamname is
\* active_team, and all_user_gids equal to the ascending list of the gids of
\* exactly those groups whose member list contains the user after
\* reconciliation.
C16_SpawnInfo ==
    \A p \in Procs :
       (pc[p] = "release" /\ pending[p].status = "returned") =>
          /\ \E i \in DOMAIN users :
                /\ users[i].uuid = req[p].uuid
                /\ pending[p].info.uid = users[i].uid
                /\ pending[p].info.username = users[i].username
          /\ \E j \in DOMAIN groups :
                /\ groups[j].teamname = req[p].active_team
                /\ pending[p].info.gid = groups[j].gid
                /\ pending[p].info.groupname = groups[j].groupname
          /\ \A a, b \in DOMAIN pending[p].info.all_user_gids :
                a < b => pending[p].info.all_user_gids[a] < pending[p].info.all_user_gids[b]
          /\ Range(pending[p].info.all_user_gids) =
                {groups[j].gid : j \in GroupsOf(pending[p].info.username)}

\* a call is about to return to a user whose team was made before the personal
\* group was: the member lists are met in the table out of the order of the gids
C16_Witness ==
    \E p \in Procs :
       /\ pc[p] = "release"
       /\ pending[p].status = "returned"
       /\ Len(pending[p].info.all_user_gids) = 2
       /\ \E i, j \in GroupsOf(pending[p].info.username) :
             i < j /\ groups[i].gid > groups[j].gid

\* C17: in every reachable state the member list of the personal group of an
\* individual user holds the username of that user and no other name: no
\* call of get_spawn_info made for another user adds that user to it.
C17_PersonalGroupSole ==
    \A i \in DOMAIN users :
       users[i].usertype = "individual" =>
          \A j \in DOMAIN groups :
             (groups[j].groupname = users[i].username /\ groups[j].gid = users[i].uid) =>
                groups[j].grouplist = <<users[i].username>>

\* delete_user on the table as it is: the first record with the uuid gets the
\* status deactivated and nothing else differs
DeleteUserFrame ==
    \A id \in all_uuids(users) \cup {Uuid1, Uuid2} :
       LET framed(U2) ==
               /\ Len(U2) = Len(users)
               /\ \A i \in DOMAIN users :
                     IF users[i].uuid = id /\ \A k \in 1..(i - 1) : users[k].uuid # id
                     THEN U2[i] = [users[i] EXCEPT !.status = "deactivated"]
                     ELSE U2[i] = users[i]
       IN framed(delete_user(users, id, "uuid"))

\* delete_group on the table as it is
DeleteGroupFrame ==
    \A name \in all_groupnames(groups) \cup {GivenName} :
       LET framed(G2) ==
               /\ Len(G2) = Len(groups)
               /\ \A j \in DOMAIN groups :
                     IF groups[j].groupname = name
                        /\ \A k \in 1..(j - 1) : groups[k].groupname # name
                     THEN G2[j] = [groups[j] EXCEPT !.status = "deactivated"]
                     ELSE G2[j] = groups[j]
       IN framed(delete_group(groups, name))

\* a step keeps every record at its place with the fields that name it
KeepsRecords ==
    /\ Len(users') >= Len(users)
    /\ \A i \in DOMAIN users :
          [users'[i] EXCEPT !.status = "active"] = [users[i] EXCEPT !.status = "active"]
    /\ Len(groups') >= Len(groups)
    /\ \A j \in DOMAIN groups :
          [groups'[j] EXCEPT !.status = "active", !.grouplist = <<>>] =
             [groups[j] EXCEPT !.status = "active", !.grouplist = <<>>]

\* C18: delete_user and delete_group only set the status of the matching
\* record to deactivated: the number of records, their order and every other
\* field are unchanged, and no operation of the registries or of
\* get_spawn_info ever removes a record from either table.
C18_DeactivateOnly ==
    /\ [](DeleteUserFrame /\ DeleteGroupFrame)
    /\ [][KeepsRecords]_vars

\* a registered user was deactivated and is still in the table with the
\* personal group that lists it
C18_Witness ==
    \E i \in DOMAIN users :
       /\ users[i].status = "deactivated"
       /\ users[i].usertype = "individual"
       /\ \E j \in DOMAIN groups :
             groups[j].groupname = users[i].username /\ groups[j].grouplist # <<>>

\* after the step the log holds no event with the tables, or the backup
\* directory no copy of a table file made at this time
BackupFailed ==
    \/ [user_rosetta |-> users, group_rosetta |-> groups] \notin events'
    \/ [name |-> "all_users.yaml", ts |-> Epoch + now, text |-> users] \notin backup_dir'
    \/ [name |-> "all_groups.yaml", ts |-> Epoch + now, text |-> groups] \notin backup_dir'

\* the end of the locked region with a failed backup: the outcome is the one
\* computed before the backup, and the tables are as they were
BackupFailureHarmless(p) ==
    (pc[p] = "resolve" /\ pc'[p] = "release" /\ BackupFailed) =>
       /\ \A r \in {resolve_active_team(users, groups, loc[p].username, loc[p].uid,
                                        req[p].ezid, req[p].active_team, req[p].teams)} :
             pending'[p] = IF r.ok THEN Returned(r.info) ELSE Raised(r.err)
       /\ UNCHANGED <<users, groups>>

\* the call gives its caller the outcome it had computed
ReturnsComputed(p) ==
    (pc[p] = "release" /\ pc'[p] = "idle") =>
       out'[p] = pending[p] /\ UNCHANGED <<users, groups>>

\* C19: if encoding the tables for the log backup or copying them to the
\* backup directory fails, get_spawn_info still returns the SpawnInfo it
\* computed and raises nothing, and the failed backup changes neither table.
C19_BackupFailure ==
    [][\A p \in Procs : BackupFailureHarmless(p) /\ ReturnsComputed(p)]_vars

\* a call has returned a SpawnInfo although no backup was ever made
C19_Witness ==
    \E p \in Procs :
       /\ pc[p] = "idle"
       /\ out[p].status = "returned"
       /\ events = {}
       /\ backup_dir = {}
       /\ Len(out[p].info.all_user_gids) = 3

\* no record of the users file is lost or altered, but for its status
KeepsUserRecords ==
    \A k \in DOMAIN users :
       /\ k \in DOMAIN users'
       /\ [users[k] EXCEPT !.status = users'[k].status] = users'[k]

\* no record of the groups file is lost or altered, but for its status and
\* the members it gains
KeepsGroupRecords ==
    \A k \in DOMAIN groups :
       /\ k \in DOMAIN groups'
       /\ [groups[k] EXCEPT !.status = groups'[k].status,
                            !.grouplist = groups'[k].grouplist] = groups'[k]
       /\ \A m \in Range(groups[k].grouplist) : m \in Range(groups'[k].grouplist)

\* the object that made the operation holds the table as the file now has it
OperationObserves ==
    nops' # nops =>
       \E i \in Instances :
          /\ \A j \in Instances \ {i} : file_dict'[j] = file_dict[j]
          /\ \/ /\ file_dict'[i].users = users'
                /\ file_dict'[i].groups = file_dict[i].groups
                /\ groups' = groups
             \/ /\ file_dict'[i].groups \in {groups', to_string_file_dict(groups', TRUE),
                                            to_string_file_dict(groups', FALSE)}
                /\ file_dict'[i].users = file_dict[i].users
                /\ users' = users

\* a record is added only if the file has no record with its uuid, uid,
\* team or gid
DecidesOnFile ==
    /\ Len(users') > Len(users) =>
          /\ users'[Len(users')].uuid \notin all_uuids(users) \ {ZeroUuid}
          /\ users'[Len(users')].uid \notin all_uids(users)
    /\ Len(groups') > Len(groups) =>
          /\ groups'[Len(groups')].teamname \notin all_teamnames(groups)
          /\ groups'[Len(groups')].gid \notin all_gids(groups)

\* C20: every registry operation reads its table from the file before using
\* it: a record one object has written is seen by the next operation of any
\* other object on the same file, and no operation decides or writes on the
\* basis of a table it held in memory from before.
C20_ReadsDurable ==
    [][KeepsUserRecords /\ KeepsGroupRecords /\ OperationObserves /\ DecidesOnFile]_vars

\* one object added a user, and then the other added a second one and
\* deactivated the first
C20_Witness ==
    \E i, j \in Instances :
       /\ i # j
       /\ Len(users) = Len(EtcPasswd_Base) + 2
       /\ Len(file_dict[i].users) = Len(EtcPasswd_Base) + 1
       /\ file_dict[j].users = users
       /\ users[Len(EtcPasswd_Base) + 1].status = "active"
       /\ users[Len(EtcPasswd_Base) + 1] = file_dict[i].users[Len(EtcPasswd_Base) + 1]

\* C21: the base OS entries are seeded only when no table file exists:
\* constructing Users, Groups or UidGidApi never overwrites or truncates a
\* table that already holds allocated records, also when two processes
\* construct them at the same time or while another is inside get_spawn_info.
C21_SeedOnce ==
    [][/\ Len(users) > Len(EtcPasswd_Base) =>
             \A k \in DOMAIN users :
                k \in DOMAIN users' /\ users'[k].uuid = users[k].uuid
       /\ Len(groups) > Len(EtcGroup_Base) =>
             \A k \in DOMAIN groups :
                k \in DOMAIN groups' /\ groups'[k].groupname = groups[k].groupname]_vars

\* C22: add_user called with a uuid that denotes, after the normalisation of
\* StsciUuid, the uuid of an existing record other than the all-zero
\* sentinel raises RuntimeError and appends no record; with the sentinel it
\* appends a record even when other sentinel records exist.
C22_NoSecondUuid ==
    [][Len(users') > Len(users) =>
          \/ users'[Len(users')].uuid = ZeroUuid
          \/ users'[Len(users')].uuid \notin all_uuids(users)]_vars

\* adding a member again and removing one who is not a member do nothing
\* and raise nothing
RepeatsAreNoOps ==
    \A k \in DOMAIN groups, u \in MemberNames :
       /\ InGrouplist(u, groups[k]) =>
             \A r \in {add_user_to_group(groups, u, groups[k].groupname)} :
                r.ok /\ r.groups = groups
       /\ ~InGrouplist(u, groups[k]) =>
             \A r \in {remove_user_from_group(groups, u, groups[k].groupname)} :
                r.ok /\ r.groups = groups

\* no member list holds a name twice
NoMemberTwice ==
    \A k \in DOMAIN groups :
       Cardinality(Range(groups[k].grouplist)) = Len(groups[k].grouplist)

\* a step leaves a member list as it is, puts one name at its end, or takes
\* one name out: the members that stay keep their order
KeepsMemberOrder ==
    \A k \in DOMAIN groups :
       LET without(old, i) == SubSeq(old, 1, i - 1) \o SubSeq(old, i + 1, Len(old))
           same(old, new) ==
               \/ new = old
               \/ Len(new) = Len(old) + 1 /\ SubSeq(new, 1, Len(old)) = old
               \/ /\ Len(new) = Len(old) - 1
                  /\ new = without(old, MinOf({a \in DOMAIN old :
                                                  a > Len(new) \/ old[a] # new[a]}))
       IN same(groups[k].grouplist, groups'[k].grouplist)

\* C23: add_user_to_group for a user who is already in the member list
\* leaves the list unchanged and raises nothing, and remove_user_from_group
\* for a user who is not in the list leaves it unchanged; after any sequence
\* of adds and removes a member list holds no name twice and keeps the order
\* in which the names were added.
C23_MemberLists ==
    [](RepeatsAreNoOps /\ NoMemberTwice) /\ [][KeepsMemberOrder]_vars

\* the candidate is returned as it is
Unchanged(c, T) == c \notin T /\ Len(c) <= UbuntuName_MAX_LEN

\* what make_unique returns is unused and short enough, the candidate when
\* that is, and otherwise a cut of the candidate with a tail -n
UniqueResult(c, T, r) ==
    /\ UbuntuName_is_valid(Take(c, UbuntuName_MAX_LEN)) => r.ok
    /\ r.ok =>
          /\ r.v \notin T
          /\ Len(r.v) <= UbuntuName_MAX_LEN
          /\ Unchanged(c, T) => r.v = c
          /\ ~Unchanged(c, T) =>
                \E n \in 1..(Cardinality(T) + 2), k \in 0..Len(c) :
                   r.v = Take(c, k) \o <<"-">> \o DecStr(n)

\* the tail is the first -n that gives an unused name, and the candidate is
\* cut only as far as that tail requires
SmallestTail(c, T, r) ==
    (r.ok /\ ~Unchanged(c, T)) =>
       \E n \in 1..(Cardinality(T) + 2) :
          /\ r.v = Suffixed(c, n)
          /\ \A m \in 1..(n - 1) : Suffixed(c, m) \in T

\* C24, as the code has it: make_unique(candidate, taken) terminates for
\* every candidate and every finite set taken, and its result is never in
\* taken and never longer than 32 characters: it is candidate itself when
\* that is unused and short enough, and otherwise a cut of the candidate
\* followed by -n for some n >= 1.
C24_MakeUnique ==
    name_out.op = "make_unique" => UniqueResult(name_in.name, name_in.existing, name_out.r)

\* C24, as stated: moreover n is the smallest n >= 1 that yields an unused
\* name, and the candidate is truncated only as far as the suffix requires.
C24_SmallestSuffix ==
    name_out.op = "make_unique" =>
       /\ UniqueResult(name_in.name, name_in.existing, name_out.r)
       /\ SmallestTail(name_in.name, name_in.existing, name_out.r)

\* a used name of 31 characters: the tail -1 makes it too long, and the
\* result has the tail -2
C24_Witness ==
    /\ name_out.op = "make_unique"
    /\ Len(name_in.name) = UbuntuName_MAX_LEN - 1
    /\ name_in.name \in name_in.existing
    /\ name_out.r.ok
    /\ name_out.r.v = Suffixed(name_in.name, 2)
    /\ Suffixed(name_in.name, 1) \notin name_in.existing

\* a lowercase letter followed by at most 31 lowercase letters, digits or
\* hyphens
IsSystemName(n) ==
    /\ Len(n) \in 1..32
    /\ IsLower(n[1])
    /\ \A i \in 2..Len(n) : IsLower(n[i]) \/ IsDigit(n[i]) \/ n[i] = "-"

PrefixOf(kind) == IF kind # "user" THEN GroupPrefix ELSE UserPrefix

\* the name does not start with a letter once its characters are squashed,
\* and with the prefix prepended nothing but the prefix is left
Degenerates(name, kind) ==
    LET left(vc) ==
            /\ ~(vc # <<>> /\ IsLower(vc[1]))
            /\ StripTrailingDashes(CollapseDashes(PrefixOf(kind) \o vc)) \o <<"-">>
                  = PrefixOf(kind)
    IN left(FilterStr(Dashify(BeforeAt(name)),
                      Range(LowerChars) \cup Range(DigitChars) \cup {"-"}))

\* C26: to_valid_username raises ValueError whenever the squashed name
\* degenerates to exactly the prefix that was prepended because the name did
\* not start with a letter: for kind user (prefix u-) and for kind group (the
\* deployment's group prefix) alike.
C26_DegenerateRaises ==
    (name_out.op = "to_valid_username" /\ Degenerates(name_in.name, name_in.kind)) =>
       (~name_out.r.ok /\ name_out.r.err.type = "ValueError")

\* the lines, out of all of them, of the records with status active
ActiveLines(lines, T) ==
    LET pick(I) == [j \in 1..Len(I) |-> lines[I[j]]]
    IN pick(SelectSeq([i \in DOMAIN T |-> i], LAMBDA i : T[i].status = "active"))

\* one line for every record, in the order of the table
AllRecordsListed ==
    /\ Len(get_etc_passwd_string(users)) = Len(users)
    /\ \A i \in DOMAIN users :
          /\ get_etc_passwd_string(users)[i][1] = users[i].username
          /\ get_etc_passwd_string(users)[i][2] = users[i].uid
    /\ Len(get_etc_group_string(groups)) = Len(groups)
    /\ \A i \in DOMAIN groups :
          /\ get_etc_group_string(groups)[i][1] = groups[i].groupname
          /\ get_etc_group_string(groups)[i][2] = groups[i].gid

ActiveRecordsListed ==
    /\ get_active_user_string(users) = ActiveLines(get_etc_passwd_string(users), users)
    /\ get_active_group_string(groups) = ActiveLines(get_etc_group_string(groups), groups)

\* C27: get_etc_passwd_string and get_etc_group_string list every record,
\* deactivated ones included, in creation order, and get_active_user_string
\* and get_active_group_string list exactly the records with status active,
\* in the same order and with the same line text; none of the four changes
\* the durable table.
C27_Strings ==
    /\ [](AllRecordsListed /\ ActiveRecordsListed)
    /\ [][\A i \in Instances :
            (\E k \in DOMAIN file_dict'[i].groups :
                /\ file_dict'[i].groups # file_dict[i].groups
                /\ k \in DOMAIN groups
                /\ file_dict'[i].groups[k].liststr
                /\ ~groups[k].liststr)
            => UNCHANGED <<users, groups>>]_vars

\* the strings of the active groups were made of a table that has a
\* deactivated group: the object holds a joined member list, the file a list
C27_Witness ==
    \E i \in Instances :
       /\ file_dict[i].groups = to_string_file_dict(groups, FALSE)
       /\ \E k \in DOMAIN groups : groups[k].status = "deactivated"
       /\ \E k \in DOMAIN groups : file_dict[i].groups[k].liststr /\ ~groups[k].liststr
       /\ Len(get_active_group_string(groups)) < Len(get_etc_group_string(groups))

\* the copies of the file in the backup directory
BackupCopies == {f \in backup_dir : f.name = BackupName}

\* C28: after any number of backup_file calls for one file with one limit,
\* the directory holds at most max_copies copies of the file, the newest copy
\* (there is one if the limit is not 0) is that of the last call and has the
\* text the file had then, and the copies that are gone
\* are those of the earliest seconds: every second of a call whose copy is
\* gone lies before the second of every copy that is left
C28_BackupFile ==
    bfile.made # {} =>
       /\ Cardinality(BackupCopies) <= bfile.max_copies
       /\ \A f \in BackupCopies :
             /\ f.ts \in bfile.made
             /\ (\A g \in BackupCopies : g.ts <= f.ts) => f.text = bfile.last
       /\ \A f, g \in BackupCopies : f.ts = g.ts => f = g
       /\ \A t \in bfile.made :
             (\A f \in BackupCopies : f.ts # t)
                => \A f \in BackupCopies : t < f.ts
       /\ bfile.max_copies > 0 =>
             \E f \in BackupCopies : f.text = bfile.last /\ \A t \in bfile.made : t <= f.ts
       /\ OtherCopy \in backup_dir \/ backup_dir = BackupCopies

\* calls in three different seconds with the limit 2: the first copy is gone,
\* and the two that are left have different texts
C28_Witness ==
    /\ bfile.max_copies = 2
    /\ Cardinality(bfile.made) = 3
    /\ Cardinality(BackupCopies) = 2
    /\ \E f, g \in BackupCopies : f.text # g.text

\* C29: decode(encode(b)) = b for every byte string b, the empty one
\* included, and a restore from the event that backup_rosetta_using_log
\* wrote succeeds and leaves both table files with the bytes they had when
\* the event was written
C29_RoundTrip ==
    /\ codec.rt.done => codec.rt.r = Ok(codec.rt.b)
    /\ codec.restored # "no" => codec.restored = "yes" /\ codec.files = codec.saved

\* a restore that brought back a file with a run of equal bytes and an empty
\* file after both had been written again, and a round trip of no bytes
C29_Witness ==
    /\ codec.restored = "yes"
    /\ codec.written
    /\ codec.saved.users \in LongRuns
    /\ codec.saved.groups = <<>>
    /\ codec.rt.done
    /\ codec.rt.b = <<>>

\* C30: in every SpawnInfo that get_spawn_info is about to return, the
\* active gid is one of all_user_gids and the user is in the member list of
\* the group of that gid, also when active_team was accepted because it
\* equals the ezid argument
C30_ActiveGidListed ==
    \A p \in Procs :
       (pc[p] = "release" /\ pending[p].status = "returned") =>
          /\ \E k \in DOMAIN pending[p].info.all_user_gids :
                pending[p].info.all_user_gids[k] = pending[p].info.gid
          /\ \E j \in GroupsOf(pending[p].info.username) :
                groups[j].gid = pending[p].info.gid

\* the groups of table G whose member list contains the username
MembershipsIn(G, username) == {i \in DOMAIN G : InGrouplist(username, G[i])}

\* C31: a step of get_spawn_info made for one uuid leaves, for every other
\* individual user of the table, the set of groups whose member list contains
\* that user's username as it was
C31_OthersKeepGroups ==
    [][\A p \in Procs :
          lock = p =>
             \A i \in DOMAIN users :
                (users[i].usertype = "individual" /\ users[i].uuid # req[p].uuid) =>
                   MembershipsIn(groups', users[i].username)
                      = MembershipsIn(groups, users[i].username)]_vars

\* C32: after any sequence of get_spawn_info calls every name in a member
\* list is the username of a user record, and the member list of a team
\* group holds the username of the admin user record made for the team, the
\* record whose uid is the gid of the group
C32_MembersAreUsers ==
    /\ \A j \in DOMAIN groups :
          ~groups[j].liststr =>
             \A k \in DOMAIN groups[j].grouplist :
                \E i \in DOMAIN users : users[i].username = groups[j].grouplist[k]
    /\ \A j \in DOMAIN groups :
          (groups[j].usertype = "group" /\ groups[j].gid >= GroupGid_min) =>
             \A i \in DOMAIN users :
                (users[i].usertype = "group" /\ users[i].uid = groups[j].gid) =>
                   InGrouplist(users[i].username, groups[j])

\* C33: no sequence of get_spawn_info calls adds a username to the member
\* list of a seeded system group: the records of the base /etc/group entries
\* are as they were seeded
C33_SystemGroupsClosed ==
    /\ Len(groups) >= Len(EtcGroup_Base)
    /\ \A j \in DOMAIN EtcGroup_Base : groups[j] = EtcGroup_Base[j]

\* a call that names the system group sudo as its team has registered its
\* user and is about to raise what create_or_fetch_group raised for the team
C33_Witness ==
    \E p \in Procs :
       /\ pc[p] = "release"
       /\ InList(SudoName, req[p].teams)
       /\ req[p].active_team = SudoName
       /\ pending[p].status = "raised"
       /\ pending[p].err.type = "ValueError"
       /\ loc[p].k = 2
       /\ \E i \in DOMAIN users : users[i].username = loc[p].username

\* the records of the uuid that delete_user has deactivated, of a user that
\* create_or_fetch_user registered: the personal group it made with the
\* record, named as the user, is in the group table
DeactivatedOf(uuid) ==
    {i \in DOMAIN users :
        /\ users[i].uuid = uuid
        /\ users[i].status = "deactivated"
        /\ \E j \in DOMAIN groups : groups[j].groupname = users[i].username}

RetriesFailedUuid(p) ==
    /\ pc[p] = "user"
    /\ pc'[p] # "user"
    /\ last.out.status = "raised"
    /\ last.args.uuid = args[p].uuid
    /\ req[p].ok
    /\ user_exist(users, PyStr(req[p].uuid))
    /\ ~NotInTeams(req[p])

\* C35: a call for a uuid whose previous call raised once the lock was held
\* is not stopped at create_or_fetch_user when its own inputs pass
\* validation and the active-team guard: the record and the personal group
\* of the uuid are fetched and the call goes on to the teams.
C35_RetryReturns ==
    [][\A p \in Procs : RetriesFailedUuid(p) => pc'[p] # "release"]_vars

\* both table files hold what the blobs of the event decode to
FromOneEvent(files, event) ==
    /\ decode(event.user_rosetta) = Ok(files.users)
    /\ decode(event.group_rosetta) = Ok(files.groups)

\* C36: a restore that fails leaves both table files with the bytes they had
\* before the call, and after a restore that succeeds both files hold what
\* the two blobs of the one event given to it decode to.
C36_RestoreAllOrNothing ==
    /\ [][(codec.restored = "no" /\ codec'.restored = "failed") =>
             codec'.files = codec.files]_vars
    /\ [](codec.restored = "yes" =>
             \/ FromOneEvent(codec.files, codec.given)
             \/ codec.given = NoGiven /\ FromOneEvent(codec.files, codec.event))

\* the calls executed are the first of the calls queued, in their order, and
\* the others are in the queue
ExecutedInOrder ==
    background.queued = background.executed \o background.queue

\* C37, as the claim states it: every call queued with run_background is
\* executed in the end.
C37_EveryCallExecuted ==
    \A i \in 1..MaxQueued :
       (Len(background.queued) >= i) ~> (Len(background.executed) >= i)

\* C37, amended: the calls are executed once each and in the order in which
\* they were queued, no call that raises ends the worker task, the task is
\* cancelled only when every call queued before shutdown was called has been
\* executed, and every call that is in the queue while shutdown has not been
\* called is executed in the end.
C37_QueuedBeforeShutdown ==
    /\ [](ExecutedInOrder /\ background.task # "gone")
    /\ [](background.task = "cancelled" =>
             Len(background.executed) >= background.before)
    /\ \A i \in 1..MaxQueued :
          (Len(background.queued) >= i /\ background.shutdown = "no")
             ~> (Len(background.executed) >= i)

\* the task was cancelled after three calls, the first of which raised, two
\* of them queued before shutdown was called
C37_Witness ==
    /\ background.task = "cancelled"
    /\ Len(background.executed) = 3
    /\ background.executed[1].raises
    /\ background.before = 2

\* the tables hold the user of the SpawnInfo info in the groups of exactly
\* the teams r.teams, and info is the SpawnInfo that the service computes
\* from the tables for the arguments r
AsTheServiceWould(r, info) ==
    /\ \A j \in DOMAIN groups :
          groups[j].usertype = "group" =>
             (InGrouplist(info.username, groups[j])
                <=> \E k \in DOMAIN r.teams : r.teams[k] = groups[j].teamname)
    /\ \E s \in {resolve_active_team(users, groups, info.username, info.uid, r.ezid,
                                     r.active_team, r.teams)} :
          s.ok /\ s.info = info

\* C38: whenever cached_get_spawn_info has returned a SpawnInfo, the service
\* stores the user in the groups of the teams of that call and of no other
\* team, and the SpawnInfo is the one the service computes from its tables
\* for the arguments of that call.
C38_CacheTransparent ==
    (lru_cache.pc = "idle" /\ lru_cache.ncalls > 0 /\ out[Client].status = "returned") =>
       AsTheServiceWould(req[Client], out[Client].info)

\* the messages of a list that have not expired at t_now, in their order
Unexpired(messages, t_now) == SelectSeq(messages, LAMBDA m : ~IsExpired(m, t_now))

\* C39: remove_expired leaves in every list of the store the messages that
\* have not expired at the time of the call, in their order, and no other
\* message.
C39_ExpiredRemoved ==
    [][ANNOUNCEMENTS'.passes # ANNOUNCEMENTS.passes =>
          \A u \in DOMAIN ANNOUNCEMENTS.store :
             ANNOUNCEMENTS'.store[u] = Unexpired(ANNOUNCEMENTS.store[u], ANNOUNCEMENTS.t_now)]_vars

\* C40: whenever dirty is false, the savefile holds the store.
C40_DirtyOrSaved ==
    ~ANNOUNCEMENTS.dirty => ANNOUNCEMENTS.savefile = to_dict(ANNOUNCEMENTS.store)

====
